---- MODULE Spec2Model ----
(***************************************************************************)
(* Model of libnote's hybrid parser core: the line-scanning BlockDetector  *)
(* (src/src/parser/detector.rs), the dialect parsers                        *)
(* (src/src/parser/parsers/*.rs), the ParserRegistry                        *)
(* (src/src/parser/interface.rs) and the BlockManager                       *)
(* (src/src/parser/manager.rs).                                             *)
(*                                                                         *)
(* Text is a sequence of one-character strings; a line index is 0-based as *)
(* in the source, so line i of `lines` is lines[i + 1].  Option<T> is a     *)
(* sequence: None is << >> and Some(x) is << x >>.                          *)
(***************************************************************************)
EXTENDS Integers, Sequences, FiniteSets, TLC

(***************************************************************************)
(* Bounds of the model                                                     *)
(***************************************************************************)
MaxLines == 3
MaxDocLines == 3
MaxEditLines == 1
MaxBlocks == 2
MaxRegisters == 3
MaxNodes == 4
MaxLevel == 3
MaxHashes == 7
MaxBullets == 3
MaxIndent == 2
MaxNoteBlocks == 2
MaxReparseLines == 3

None == << >>
Some(x) == << x >>

(***************************************************************************)
(* String primitives (Rust std::str), computed character by character       *)
(***************************************************************************)
NL == "\n"
IsWhitespace(c) == c \in {" ", "\n", "\t", "\r"}

Min(S) == CHOOSE m \in S : \A n \in S : m <= n

Drop(s, n) == IF n >= Len(s) THEN << >> ELSE SubSeq(s, n + 1, Len(s))
Take(s, n) == IF n >= Len(s) THEN s ELSE SubSeq(s, 1, n)

StartsWith(s, p) == Len(p) <= Len(s) /\ SubSeq(s, 1, Len(p)) = p

\* positions (1-based) at which p occurs in s
Occurrences(s, p) ==
  {k \in 1..(Len(s) - Len(p) + 1) : SubSeq(s, k, k + Len(p) - 1) = p}

Contains(s, p) == Occurrences(s, p) # {}

RECURSIVE CountMatches(_, _)
\* str::matches(p).count(): non-overlapping occurrences, left to right
CountMatches(s, p) ==
  IF ~Contains(s, p) THEN 0
  ELSE 1 + CountMatches(Drop(s, Min(Occurrences(s, p)) + Len(p) - 1), p)

RECURSIVE Replace(_, _, _)
\* str::replace(p, r): every non-overlapping occurrence, left to right
Replace(s, p, r) ==
  IF ~Contains(s, p) THEN s
  ELSE LET k == Min(Occurrences(s, p))
       IN Take(s, k - 1) \o r \o Replace(Drop(s, k + Len(p) - 1), p, r)

TrimStart(s) ==
  LET nonws == {k \in 1..Len(s) : ~IsWhitespace(s[k])}
  IN IF nonws = {} THEN << >> ELSE Drop(s, Min(nonws) - 1)

TrimEnd(s) ==
  LET nonws == {k \in 1..Len(s) : ~IsWhitespace(s[k])}
  IN IF nonws = {} THEN << >>
     ELSE Take(s, CHOOSE m \in nonws : \A n \in nonws : n <= m)

Trim(s) == TrimEnd(TrimStart(s))

\* str::trim_start_matches(c)
TrimStartMatches(s, c) ==
  LET other == {k \in 1..Len(s) : s[k] # c}
  IN IF other = {} THEN << >> ELSE Drop(s, Min(other) - 1)

\* number of leading characters equal to c (chars().take_while(..).count())
LeadingCount(s, c) == Len(s) - Len(TrimStartMatches(s, c))

\* split_whitespace().next()
FirstToken(s) ==
  LET t == TrimStart(s)
      ws == {k \in 1..Len(t) : IsWhitespace(t[k])}
  IN IF t = << >> THEN None
     ELSE IF ws = {} THEN Some(t) ELSE Some(Take(t, Min(ws) - 1))

UpperChar(c) ==
  CASE c = "a" -> "A" [] c = "b" -> "B" [] c = "c" -> "C" [] c = "e" -> "E"
    [] c = "p" -> "P" [] c = "r" -> "R" [] c = "s" -> "S" [] c = "x" -> "X"
    [] c = "y" -> "Y" [] OTHER -> c

ToUppercase(s) == [k \in 1..Len(s) |-> UpperChar(s[k])]

RECURSIVE Join(_, _)
\* [T]::join(sep)
Join(parts, sep) ==
  IF parts = << >> THEN << >>
  ELSE IF Len(parts) = 1 THEN parts[1]
  ELSE parts[1] \o sep \o Join(Tail(parts), sep)

RECURSIVE Repeat(_, _)
Repeat(s, n) == IF n <= 0 THEN << >> ELSE s \o Repeat(s, n - 1)

RECURSIVE SplitNewline(_)
\* the pieces of s between "\n" characters (one more piece than newlines)
SplitNewline(s) ==
  LET nls == {k \in 1..Len(s) : s[k] = NL}
  IN IF nls = {} THEN << s >>
     ELSE << Take(s, Min(nls) - 1) >> \o SplitNewline(Drop(s, Min(nls)))

StripCR(l) == IF l # << >> /\ l[Len(l)] = "\r" THEN Take(l, Len(l) - 1) ELSE l

\* str::lines(): split at "\n", a final empty piece is not a line, a trailing
\* "\r" of a line is removed
Lines(text) ==
  LET pieces == SplitNewline(text)
      kept == IF pieces[Len(pieces)] = << >>
              THEN Take(pieces, Len(pieces) - 1) ELSE pieces
  IN [k \in 1..Len(kept) |-> StripCR(kept[k])]

LineAt(lines, i) == lines[i + 1]
\* lines[a..=b].join("\n")
JoinLines(lines, a, b) == Join(SubSeq(lines, a + 1, b + 1), << NL >>)

(***************************************************************************)
(* Marker literals                                                         *)
(***************************************************************************)
BEGIN_ == << "#", "+", "B", "E", "G", "I", "N", "_" >>
END_ == << "#", "+", "E", "N", "D", "_" >>
\* the backquote character (a TLA+ string cannot hold one)
BQ == "BQ"
FENCE == << BQ, BQ, BQ >>
DOLLARS == << "$", "$" >>
BEGIN_SRC == BEGIN_ \o << "S", "R", "C" >>

(***************************************************************************)
(* BlockDetector                                                           *)
(***************************************************************************)
SyntaxKind == {"Markdown", "Org", "LaTeX", "Code", "Custom"}

SyntaxBlock(syntax, language, content, start_line, end_line) ==
  [syntax |-> syntax, language |-> language, content |-> content,
   start_line |-> start_line, end_line |-> end_line]

\* line indexes after start, the range of the scans' forward loops
LinesAfter(lines, start) == (start + 1)..(Len(lines) - 1)

\* first index among the hits of a forward loop, as Option
FirstLine(hits) == IF hits = {} THEN None ELSE Some(Min(hits))

ScanOrgBlock(lines, start) ==
  LET trimmed == TrimStart(LineAt(lines, start))
  IN IF ~StartsWith(trimmed, BEGIN_) THEN None
     ELSE
       LET after_begin == Drop(trimmed, Len(BEGIN_))
           tok == FirstToken(after_begin)
       IN IF tok = None THEN None
          ELSE
            LET block_type == ToUppercase(tok[1])
                end_marker == END_ \o block_type
                hit == FirstLine({k \in LinesAfter(lines, start) :
                         StartsWith(TrimStart(LineAt(lines, k)), end_marker)})
            IN IF hit = None THEN None
               ELSE Some([block |-> SyntaxBlock("Org", None,
                                      JoinLines(lines, start, hit[1]),
                                      start, hit[1]),
                          next |-> hit[1] + 1])

ScanMarkdownCodeBlock(lines, start) ==
  LET first_line == Trim(LineAt(lines, start))
      language == IF StartsWith(first_line, FENCE)
                  THEN FirstToken(Trim(Drop(first_line, Len(FENCE))))
                  ELSE None
      hit == FirstLine({k \in LinesAfter(lines, start) :
                         StartsWith(Trim(LineAt(lines, k)), FENCE)})
  IN IF hit = None THEN None
     ELSE Some([block |-> SyntaxBlock("Code", language,
                            JoinLines(lines, start, hit[1]), start, hit[1]),
                next |-> hit[1] + 1])

\* ScanLatexBlock with the closing line left to the next scan
ScanLatexBlock_NoSkip(lines, start) ==
  LET first_line == LineAt(lines, start)
  IN IF ~Contains(first_line, DOLLARS) THEN None
     ELSE IF CountMatches(first_line, DOLLARS) >= 2
     THEN Some([block |-> SyntaxBlock("LaTeX", None, first_line, start, start),
                next |-> start + 1])
     ELSE
       LET hit == FirstLine({k \in LinesAfter(lines, start) :
                         Contains(LineAt(lines, k), DOLLARS)})
       IN IF hit = None THEN None
          ELSE Some([block |-> SyntaxBlock("LaTeX", None,
                                 JoinLines(lines, start, hit[1]),
                                 start, hit[1]),
                     next |-> hit[1]])

ScanLatexBlock(lines, start) ==
  LET first_line == LineAt(lines, start)
  IN IF ~Contains(first_line, DOLLARS) THEN None
     ELSE IF CountMatches(first_line, DOLLARS) >= 2
     THEN Some([block |-> SyntaxBlock("LaTeX", None, first_line, start, start),
                next |-> start + 1])
     ELSE
       LET hit == FirstLine({k \in LinesAfter(lines, start) :
                         Contains(LineAt(lines, k), DOLLARS)})
       IN IF hit = None THEN None
          ELSE Some([block |-> SyntaxBlock("LaTeX", None,
                                 JoinLines(lines, start, hit[1]),
                                 start, hit[1]),
                     next |-> hit[1] + 1])

\* the two break conditions of scan_markdown_block's loop, for a line at
\* offset i > 0 from the start
MarkdownBoundary(line) ==
  LET trimmed == Trim(line)
  IN \/ trimmed = << >>
     \/ StartsWith(trimmed, BEGIN_)
     \/ StartsWith(trimmed, FENCE)
     \/ Contains(trimmed, DOLLARS)

\* scan_markdown_block that stops at blank lines only
ScanMarkdownBlock_BlankOnly(lines, start) ==
  LET hit == FirstLine({k \in LinesAfter(lines, start) :
                         Trim(LineAt(lines, k)) = << >>})
      end == IF hit = None THEN Len(lines) - 1 ELSE hit[1] - 1
  IN IF end >= start
     THEN Some([block |-> SyntaxBlock("Markdown", None,
                            JoinLines(lines, start, end), start, end),
                next |-> end + 1])
     ELSE None

ScanMarkdownBlock(lines, start) ==
  LET hit == FirstLine({k \in LinesAfter(lines, start) :
                         MarkdownBoundary(LineAt(lines, k))})
      end == IF hit = None THEN Len(lines) - 1 ELSE hit[1] - 1
  IN IF end >= start
     THEN Some([block |-> SyntaxBlock("Markdown", None,
                            JoinLines(lines, start, end), start, end),
                next |-> end + 1])
     ELSE None

ScanBlock(lines, start) ==
  LET line == LineAt(lines, start)
  IN IF StartsWith(TrimStart(line), BEGIN_) THEN ScanOrgBlock(lines, start)
     ELSE IF StartsWith(Trim(line), FENCE)
     THEN ScanMarkdownCodeBlock(lines, start)
     ELSE IF Contains(line, DOLLARS) THEN ScanLatexBlock(lines, start)
     ELSE IF Trim(line) # << >> THEN ScanMarkdownBlock(lines, start)
     ELSE None

RECURSIVE DetectLoop(_, _, _)
\* the while loop of detect, from current_pos with the blocks found so far
DetectLoop(lines, current_pos, found) ==
  IF current_pos >= Len(lines) THEN found
  ELSE LET r == ScanBlock(lines, current_pos)
       IN IF r # None
          THEN DetectLoop(lines, r[1].next, Append(found, r[1].block))
          ELSE DetectLoop(lines, current_pos + 1, found)

Detect(text) == DetectLoop(Lines(text), 0, << >>)


(***************************************************************************)
(* AST model (src/src/models.rs) and block metadata (src/src/parser/mod.rs) *)
(***************************************************************************)
InlineText(t) == [inline |-> "Text", text |-> t]

Paragraph(content) == [leaf |-> "Paragraph", content |-> content]
Heading(level, content) ==
  [leaf |-> "Heading", level |-> level, content |-> content]
CodeBlock(language, content) ==
  [leaf |-> "CodeBlock", language |-> language, content |-> content]
MathBlock(content) == [leaf |-> "MathBlock", content |-> content]
HorizontalRule == [leaf |-> "HorizontalRule"]

DefaultMetadata ==
  [heading_level |-> None, id |-> None, todo_state |-> None,
   properties |-> << >>]

HybridBlockNew(syntax, raw_text, ast, line_range) ==
  [syntax |-> syntax, raw_text |-> raw_text, ast |-> ast,
   metadata |-> DefaultMetadata, line_range |-> line_range]

WithMetadata(block, metadata) == [block EXCEPT !.metadata = metadata]

(***************************************************************************)
(* Results: Ok(v), Err(e), and a panic that unwinds out of the call        *)
(***************************************************************************)
Ok(v) == [tag |-> "Ok", value |-> v]
Err(e) == [tag |-> "Err", value |-> e]
Panic == [tag |-> "Panic", value |-> None]

\* ParseError::SyntaxError and its Display text
SyntaxError(line, message) ==
  [kind |-> "SyntaxError", line |-> line, message |-> message]
ParseErrorToString(e) == << "Syntax error at line", e.line, e.message >>

(***************************************************************************)
(* MarkdownParser (src/src/parser/parsers/markdown.rs)                      *)
(***************************************************************************)
RenderInlineContent(content) ==
  LET texts == SelectSeq(content, LAMBDA i : i.inline = "Text")
  IN Join([k \in 1..Len(texts) |-> texts[k].text], << " " >>)

MarkdownGetHeadingLevel(line) ==
  LET trimmed == TrimStart(line)
      hash_count == LeadingCount(trimmed, "#")
  IN IF ~StartsWith(trimmed, << "#" >>) THEN None
     ELSE IF /\ hash_count > 0
             /\ hash_count < 7
             /\ Len(trimmed) >= hash_count + 1
             /\ trimmed[hash_count + 1] = " "
     THEN Some(hash_count)
     ELSE None

IsRuleLine(line) ==
  /\ \/ StartsWith(line, << "-", "-", "-" >>)
     \/ StartsWith(line, << "*", "*", "*" >>)
     \/ StartsWith(line, << "_", "_", "_" >>)
  /\ \A k \in 1..Len(line) : line[k] \in {"-", "*", "_"} \/ IsWhitespace(line[k])

MarkdownParse(raw_text, line_offset) ==
  LET ls == Lines(raw_text)
      level == IF ls = << >> THEN None ELSE MarkdownGetHeadingLevel(ls[1])
  IN IF level # None
     THEN Ok(<< Heading(level[1],
                  << InlineText(Trim(TrimStartMatches(ls[1], "#"))) >>),
                [DefaultMetadata EXCEPT !.heading_level = level] >>)
     ELSE IF Len(ls) = 1 /\ IsRuleLine(Trim(ls[1]))
     THEN Ok(<< HorizontalRule, DefaultMetadata >>)
     ELSE Ok(<< Paragraph(<< InlineText(raw_text) >>), DefaultMetadata >>)

MarkdownRender(block, metadata) ==
  CASE block.leaf = "Heading" ->
         Repeat(<< "#" >>, block.level) \o << " " >>
           \o RenderInlineContent(block.content)
    [] block.leaf = "HorizontalRule" -> << "-", "-", "-" >>
    [] block.leaf = "Paragraph" -> RenderInlineContent(block.content)
    [] block.leaf = "CodeBlock" ->
         FENCE \o (IF block.language = None THEN << >> ELSE block.language[1])
           \o << NL >> \o block.content \o << NL >> \o FENCE
    [] OTHER -> << >>

(***************************************************************************)
(* OrgParser (src/src/parser/parsers/org.rs)                                *)
(***************************************************************************)
OrgParseHeadingLine(line) ==
  LET star_count == LeadingCount(line, "*")
      rest == Drop(line, star_count)
  IN IF ~StartsWith(line, << "*" >>) THEN None
     ELSE IF star_count = 0 \/ star_count >= 7 THEN None
     ELSE IF ~StartsWith(rest, << " " >>) THEN None
     ELSE Some(<< star_count, Trim(Drop(rest, 1)) >>)

TODO_ == << "T", "O", "D", "O" >>
DONE_ == << "D", "O", "N", "E" >>

OrgParse(raw_text, line_offset) ==
  LET ls == Lines(raw_text)
  IN IF ls = << >> THEN Ok(<< Paragraph(<< >>), DefaultMetadata >>)
     ELSE
       LET first_line == TrimStart(ls[1])
           h == OrgParseHeadingLine(first_line)
       IN IF h # None
          THEN LET title == h[1][2]
                   todo == IF StartsWith(title, TODO_ \o << " " >>)
                           THEN Some(TODO_)
                           ELSE IF StartsWith(title, DONE_ \o << " " >>)
                           THEN Some(DONE_)
                           ELSE None
               IN Ok(<< Heading(h[1][1], << InlineText(title) >>),
                        [DefaultMetadata EXCEPT !.heading_level = Some(h[1][1]),
                                                !.todo_state = todo] >>)
          ELSE IF StartsWith(first_line, BEGIN_SRC)
          THEN LET language == Trim(Drop(first_line, Len(BEGIN_SRC)))
               IN \* &lines[1..lines.len().saturating_sub(1)]
                  IF Len(ls) - 1 < 1 THEN Panic
                  ELSE Ok(<< CodeBlock(
                               IF language = << >> THEN None ELSE Some(language),
                               Join(SubSeq(ls, 2, Len(ls) - 1), << NL >>)),
                             DefaultMetadata >>)
          ELSE Ok(<< Paragraph(<< InlineText(raw_text) >>), DefaultMetadata >>)

OrgRender(block, metadata) ==
  CASE block.leaf = "Heading" ->
         Repeat(<< "*" >>, block.level) \o << " " >>
           \o (IF metadata.todo_state = None THEN << >>
               ELSE metadata.todo_state[1] \o << " " >>)
           \o RenderInlineContent(block.content)
    [] block.leaf = "CodeBlock" ->
         BEGIN_SRC \o << " " >>
           \o (IF block.language = None THEN << >> ELSE block.language[1])
           \o << NL >> \o block.content \o << NL >> \o END_ \o << "S", "R", "C" >>
    [] block.leaf = "Paragraph" -> RenderInlineContent(block.content)
    [] OTHER -> << >>

(***************************************************************************)
(* LaTeXParser (src/src/parser/parsers/latex.rs)                            *)
(***************************************************************************)
LBRACKET == << "\\", "[" >>
RBRACKET == << "\\", "]" >>

ExtractMathContent(t) ==
  IF Contains(t, DOLLARS) THEN Trim(Replace(t, DOLLARS, << >>))
  ELSE IF Contains(t, LBRACKET)
  THEN Trim(Replace(Replace(t, LBRACKET, << >>), RBRACKET, << >>))
  ELSE t

LaTeXParse(raw_text, line_offset) ==
  Ok(<< MathBlock(ExtractMathContent(raw_text)), DefaultMetadata >>)

LaTeXRender(block, metadata) ==
  IF block.leaf = "MathBlock" THEN DOLLARS \o block.content \o DOLLARS
  ELSE << >>

(***************************************************************************)
(* A Parser implementor supplied by the host for SyntaxKind::Custom: the   *)
(* trait lets parse return Err; this one rejects blank text with a         *)
(* SyntaxError at its line offset and otherwise yields a paragraph.        *)
(***************************************************************************)
CustomParse(raw_text, line_offset) ==
  IF Trim(raw_text) = << >>
  THEN Err(SyntaxError(line_offset, "empty block"))
  ELSE Ok(<< Paragraph(<< InlineText(raw_text) >>), DefaultMetadata >>)

CustomRender(block, metadata) ==
  IF block.leaf = "Paragraph" THEN RenderInlineContent(block.content)
  ELSE << >>

\* a second implementor of kind Custom, one that accepts every text
PlainParse(raw_text, line_offset) ==
  Ok(<< Paragraph(<< InlineText(raw_text) >>), DefaultMetadata >>)

(***************************************************************************)
(* Parser trait dispatch and ParserRegistry (src/src/parser/interface.rs)   *)
(***************************************************************************)
Parsers ==
  {"MarkdownParser", "OrgParser", "LaTeXParser", "CustomParser", "PlainParser"}

ParserSyntaxKind(p) ==
  CASE p = "MarkdownParser" -> "Markdown"
    [] p = "OrgParser" -> "Org"
    [] p = "LaTeXParser" -> "LaTeX"
    [] p = "CustomParser" -> "Custom"
    [] p = "PlainParser" -> "Custom"

ParserParse(p, raw_text, line_offset) ==
  CASE p = "MarkdownParser" -> MarkdownParse(raw_text, line_offset)
    [] p = "OrgParser" -> OrgParse(raw_text, line_offset)
    [] p = "LaTeXParser" -> LaTeXParse(raw_text, line_offset)
    [] p = "CustomParser" -> CustomParse(raw_text, line_offset)
    [] p = "PlainParser" -> PlainParse(raw_text, line_offset)

ParserRender(p, block, metadata) ==
  CASE p = "MarkdownParser" -> MarkdownRender(block, metadata)
    [] p = "OrgParser" -> OrgRender(block, metadata)
    [] p = "LaTeXParser" -> LaTeXRender(block, metadata)
    [] p = "CustomParser" -> CustomRender(block, metadata)
    [] p = "PlainParser" -> CustomRender(block, metadata)

\* ParserRegistry::new(): the empty map
RegistryNew == [k \in SyntaxKind |-> None]

\* register that keeps the parser already held for the kind
Register_KeepFirst(reg, p) ==
  IF reg[ParserSyntaxKind(p)] = None
  THEN [reg EXCEPT ![ParserSyntaxKind(p)] = Some(p)]
  ELSE reg

\* register: insert under the parser's own syntax_kind()
Register(reg, p) == [reg EXCEPT ![ParserSyntaxKind(p)] = Some(p)]

\* get: a lookup
RegistryGet(reg, syntax) == reg[syntax]

\* a registry after a sequence of register calls
RECURSIVE RegisterAll(_, _)
RegisterAll(reg, calls) ==
  IF calls = << >> THEN reg
  ELSE RegisterAll(Register(reg, Head(calls)), Tail(calls))

\* the register calls of LibnoteDocument::new, and its registry
RepoCalls == << "MarkdownParser", "OrgParser", "LaTeXParser" >>
RepoRegistry == RegisterAll(RegistryNew, RepoCalls)

NoParserFor(syntax) == << "No parser for", syntax >>

(***************************************************************************)
(* Input lines and texts                                                   *)
(***************************************************************************)
L_blank == << >>
L_space == << " " >>
L_a == << "a" >>
L_head == << "#", " ", "a" >>
L_fence == FENCE
L_fence_py == FENCE \o << "p", "y" >>
L_dd == DOLLARS
L_math == DOLLARS \o << "x" >> \o DOLLARS
L_begin == BEGIN_SRC \o << " ", "p", "y" >>
L_end == END_ \o << "S", "R", "C" >>
L_begin_lc == BEGIN_ \o << "s", "r", "c" >>
L_end_lc == END_ \o << "s", "r", "c" >>
L_begin0 == BEGIN_

LinePool ==
  {L_blank, L_space, L_a, L_head, L_fence, L_fence_py, L_dd, L_math,
   L_begin, L_end, L_begin_lc, L_end_lc, L_begin0}

SeqsUpTo(S, n) == UNION {[1..k -> S] : k \in 0..n}

DetectTexts == {Join(ls, << NL >>) : ls \in SeqsUpTo(LinePool, MaxLines)}

(***************************************************************************)
(* State                                                                   *)
(***************************************************************************)
VARIABLES
  text,            \* detect: the text being scanned
  lines,           \* detect: text.lines().collect()
  current_pos,     \* detect: the loop's line index
  found,           \* detect: the local `blocks` vector built so far
  blocks,          \* BlockManager.blocks
  dirty_blocks,    \* BlockManager.dirty_blocks
  parser_registry, \* BlockManager.parser_registry
  registered,      \* the parsers passed to register so far, in call order
  input,           \* the argument of a function called on its own
  clean,           \* history: the blocks right after the latest clear_dirty
                   \* or parse_document, followed in SpecClean only
  last             \* the latest call: its name, arguments and result

detectVars == << text, lines, current_pos, found >>
registryVars == << parser_registry, registered >>
managerVars == << blocks, dirty_blocks, registryVars, last >>
vars == << text, lines, current_pos, found,
           blocks, dirty_blocks, parser_registry, registered, input, clean,
           last >>

Call(op, index, arg, result) ==
  [op |-> op, index |-> index, arg |-> arg, result |-> result]

\* BlockManager::new(detector, parser_registry)
ManagerNew(registry) ==
  /\ blocks = << >>
  /\ dirty_blocks = {}
  /\ parser_registry = registry
  /\ last = Call("new", 0, None, Ok(None))

(***************************************************************************)
(* BlockDetector::detect, one loop iteration per step                      *)
(***************************************************************************)
DetectInit ==
  /\ text \in DetectTexts
  /\ lines = Lines(text)
  /\ current_pos = 0
  /\ found = << >>
  /\ clean = << >>
  /\ input = None
  /\ registered = << >>
  /\ ManagerNew(RegistryNew)

\* if let Some((block, new_pos)) = scan_block(..): push and jump
DetectPush ==
  /\ current_pos < Len(lines)
  /\ ScanBlock(lines, current_pos) # None
  /\ found' = Append(found, ScanBlock(lines, current_pos)[1].block)
  /\ current_pos' = ScanBlock(lines, current_pos)[1].next
  /\ UNCHANGED << text, lines >>
  /\ UNCHANGED << managerVars, input, clean >>

\* else: current_pos += 1
DetectAdvance ==
  /\ current_pos < Len(lines)
  /\ ScanBlock(lines, current_pos) = None
  /\ current_pos' = current_pos + 1
  /\ UNCHANGED << text, lines, found >>
  /\ UNCHANGED << managerVars, input, clean >>

DetectNext == DetectPush \/ DetectAdvance

SpecDetect == DetectInit /\ [][DetectNext]_vars

DetectDone == current_pos >= Len(lines)

IsBlankLine(l) == Trim(l) = << >>

\* the blocks of `found` whose [start_line, end_line] range holds line i
Covering(i) ==
  {k \in 1..Len(found) : found[k].start_line <= i /\ i <= found[k].end_line}

\* C1: when detect returns, every non-blank line of the text lies in the
\* line range of exactly one returned SyntaxBlock.
C1_EveryNonBlankLineCovered ==
  DetectDone =>
    \A i \in 0..(Len(lines) - 1) :
      ~IsBlankLine(LineAt(lines, i)) => Cardinality(Covering(i)) = 1

\* C2: the returned blocks are in line order and never overlap: each has
\* start_line <= end_line < number of lines and a non-blank first line, and
\* each block ends before the next one starts.
C2_OrderedDisjoint ==
  /\ \A k \in 1..Len(found) :
       /\ found[k].start_line <= found[k].end_line
       /\ found[k].end_line < Len(lines)
       /\ ~IsBlankLine(LineAt(lines, found[k].start_line))
  /\ \A k \in 1..(Len(found) - 1) :
       found[k].end_line < found[k + 1].start_line

C2_Witness ==
  /\ DetectDone
  /\ Len(found) = 2
  /\ found[1].syntax = "LaTeX"
  /\ found[1].end_line > found[1].start_line
  /\ found[2].start_line = found[1].end_line + 1


(***************************************************************************)
(* BlockManager (src/src/parser/manager.rs)                                 *)
(***************************************************************************)
RECURSIVE ParseBlocks(_, _, _)
\* the for loop of parse_document over raw_blocks; acc is self.blocks
ParseBlocks(reg, raw_blocks, acc) ==
  IF raw_blocks = << >> THEN [blocks |-> acc, result |-> Ok(None)]
  ELSE
    LET raw_block == Head(raw_blocks)
        parser == RegistryGet(reg, raw_block.syntax)
    IN IF parser = None
       THEN [blocks |-> acc, result |-> Err(NoParserFor(raw_block.syntax))]
       ELSE
         LET r == ParserParse(parser[1], raw_block.content,
                              raw_block.start_line)
         IN IF r.tag = "Err"
            THEN [blocks |-> acc,
                  result |-> Err(ParseErrorToString(r.value))]
            ELSE IF r.tag = "Panic"
            THEN [blocks |-> acc, result |-> Panic]
            ELSE ParseBlocks(reg, Tail(raw_blocks),
                   Append(acc,
                     WithMetadata(
                       HybridBlockNew(raw_block.syntax, raw_block.content,
                         r.value[1],
                         << raw_block.start_line, raw_block.end_line >>),
                       r.value[2])))

\* parse_document: detect, clear blocks and dirty set, then the loop
ParseDocumentResult(reg, t) == ParseBlocks(reg, Detect(t), << >>)

\* map_err(|e| e.to_string()) on a parser's result
MapErr(r) == IF r.tag = "Err" THEN Err(ParseErrorToString(r.value)) ELSE r

\* update_block_text up to the parse: the index check, the registry lookup
\* and the parser's result (Ok(<< ast, metadata >>), Err(message) or Panic)
UpdateParse(bs, reg, index, new_text) ==
  IF index >= Len(bs) THEN Err(<< "Block index out of range" >>)
  ELSE
    LET block == bs[index + 1]
        parser == RegistryGet(reg, block.syntax)
    IN IF parser = None THEN Err(NoParserFor(block.syntax))
       ELSE
         MapErr(ParserParse(parser[1], new_text, block.line_range[1]))

\* update_block_text that leaves the old metadata in place
UpdateBlockTextResult_KeepsMetadata(bs, dirty, reg, index, new_text) ==
  LET r == UpdateParse(bs, reg, index, new_text)
  IN IF r.tag # "Ok" THEN [blocks |-> bs, dirty |-> dirty, result |-> r]
     ELSE [blocks |-> [bs EXCEPT ![index + 1] =
                        [bs[index + 1] EXCEPT !.raw_text = new_text,
                                              !.ast = r.value[1]]],
           dirty |-> dirty \cup {index},
           result |-> Ok(None)]

\* update_block_text that marks the index dirty before it parses
UpdateBlockTextResult_DirtyFirst(bs, dirty, reg, index, new_text) ==
  LET r == UpdateParse(bs, reg, index, new_text)
  IN IF r.tag # "Ok"
     THEN [blocks |-> bs, dirty |-> dirty \cup {index}, result |-> r]
     ELSE [blocks |-> [bs EXCEPT ![index + 1] =
                        [bs[index + 1] EXCEPT !.raw_text = new_text,
                                              !.ast = r.value[1],
                                              !.metadata = r.value[2]]],
           dirty |-> dirty \cup {index},
           result |-> Ok(None)]

\* update_block_text that assigns the new text and metadata but not the ast
UpdateAssign_KeepsAst(bs, dirty, index, new_text, r) ==
  IF r.tag # "Ok" THEN [blocks |-> bs, dirty |-> dirty, result |-> r]
  ELSE [blocks |-> [bs EXCEPT ![index + 1] =
                     [bs[index + 1] EXCEPT !.raw_text = new_text,
                                           !.metadata = r.value[2]]],
        dirty |-> dirty \cup {index},
        result |-> Ok(None)]

\* the end of update_block_text given the outcome r of UpdateParse: the `?`
\* returns r when it is not Ok, else the four assignments
UpdateAssign(bs, dirty, index, new_text, r) ==
  IF r.tag # "Ok" THEN [blocks |-> bs, dirty |-> dirty, result |-> r]
  ELSE [blocks |-> [bs EXCEPT ![index + 1] =
                     [bs[index + 1] EXCEPT !.raw_text = new_text,
                                           !.ast = r.value[1],
                                           !.metadata = r.value[2]]],
        dirty |-> dirty \cup {index},
        result |-> Ok(None)]

\* update_block_text on the state (bs, dirty): nothing is assigned unless the
\* parse succeeded
UpdateBlockTextResult(bs, dirty, reg, index, new_text) ==
  UpdateAssign(bs, dirty, index, new_text,
               UpdateParse(bs, reg, index, new_text))

\* Vec::insert that puts the block after the element at index
InsertAt_After(bs, index, block) ==
  Take(bs, index + 1) \o << block >> \o Drop(bs, index + 1)

InsertAt(bs, index, block) ==
  Take(bs, index) \o << block >> \o Drop(bs, index)

RemoveAt(bs, index) == Take(bs, index) \o Drop(bs, index + 1)

\* insert_block that marks only the inserted index
InsertBlockResult_NoTail(bs, dirty, index, block) ==
  IF index > Len(bs)
  THEN [blocks |-> bs, dirty |-> dirty, result |-> Panic]
  ELSE [blocks |-> InsertAt(bs, index, block),
        dirty |-> dirty \cup {index},
        result |-> Ok(None)]

\* insert_block; Vec::insert panics when index > len
InsertBlockResult(bs, dirty, index, block) ==
  IF index > Len(bs)
  THEN [blocks |-> bs, dirty |-> dirty, result |-> Panic]
  ELSE LET nbs == InsertAt(bs, index, block)
       IN [blocks |-> nbs,
           dirty |-> dirty \cup {index} \cup ((index + 1)..(Len(nbs) - 1)),
           result |-> Ok(None)]

\* remove_block that forgets the dirty indices before the removed one
RemoveBlockResult_Resets(bs, dirty, index) ==
  IF index < Len(bs)
  THEN [blocks |-> RemoveAt(bs, index),
        dirty |-> index..(Len(bs) - 2),
        result |-> Ok(Some(bs[index + 1]))]
  ELSE [blocks |-> bs, dirty |-> dirty, result |-> Ok(None)]

\* remove_block
RemoveBlockResult(bs, dirty, index) ==
  IF index < Len(bs)
  THEN LET nbs == RemoveAt(bs, index)
       IN [blocks |-> nbs,
           dirty |-> (dirty \ {index}) \cup (index..(Len(nbs) - 1)),
           result |-> Ok(Some(bs[index + 1]))]
  ELSE [blocks |-> bs, dirty |-> dirty, result |-> Ok(None)]

RECURSIVE RenderLoop(_, _, _)
\* the for loop shared by render_document and render_dirty_blocks: each
\* block's rendering followed by a newline, or the first missing parser
RenderLoop(reg, bs, output) ==
  IF bs = << >> THEN Ok(output)
  ELSE LET block == Head(bs)
           parser == RegistryGet(reg, block.syntax)
       IN IF parser = None THEN Err(NoParserFor(block.syntax))
          ELSE RenderLoop(reg, Tail(bs),
                 output \o ParserRender(parser[1], block.ast, block.metadata)
                        \o << NL >>)

\* render_document without the final trim_end
RenderDocumentResult_NoTrim(reg, bs) == RenderLoop(reg, bs, << >>)

\* render_document: the loop, then Ok(output.trim_end())
RenderDocumentResult(reg, bs) ==
  LET r == RenderLoop(reg, bs, << >>)
  IN IF r.tag = "Ok" THEN Ok(TrimEnd(r.value)) ELSE r

(***************************************************************************)
(* Inputs of the manager calls                                             *)
(***************************************************************************)
DocLinePool == {L_blank, L_a, L_head, L_fence, L_math, L_dd, L_begin, L_end}

\* a heading, a paragraph and a py fenced code block separated by blank lines
ScenarioLines == << L_head, L_blank, L_a, L_blank, L_fence_py, L_a, L_fence >>
ScenarioText == Join(ScenarioLines, << NL >>)

\* the documents of the parse-and-render pipeline
DocTexts ==
  {Join(ls, << NL >>) : ls \in SeqsUpTo(DocLinePool, MaxDocLines)}
    \cup {ScenarioText}

EditLinePool == {L_a}

\* the documents an editing session loads
EditTexts == {Join(ls, << NL >>) : ls \in SeqsUpTo(EditLinePool, MaxEditLines)}

UpdateTexts == {L_head, L_blank}

\* the block of test_dirty_block_tracking, and a block of a host dialect
TestBlock ==
  HybridBlockNew("Markdown", << "t", "e", "s", "t" >>, Paragraph(<< >>),
                 << 0, 0 >>)
CustomBlock ==
  HybridBlockNew("Custom", L_a, Paragraph(<< InlineText(L_a) >>), << 0, 0 >>)

InsertBlocks == {TestBlock, CustomBlock}

FullCalls == Append(RepoCalls, "CustomParser")
FullRegistry == RegisterAll(RegistryNew, FullCalls)

\* an editing session runs on the registry of LibnoteDocument::new, with or
\* without the host's parser; a pipeline may also run on the empty registry of
\* BlockManager::default()
RegistryCalls == {RepoCalls, FullCalls}
DocRegistryCalls == {<< >>, RepoCalls, FullCalls}

(***************************************************************************)
(* The manager's calls as actions                                          *)
(***************************************************************************)
Init ==
  /\ \E calls \in RegistryCalls :
       /\ registered = calls
       /\ ManagerNew(RegisterAll(RegistryNew, calls))
  /\ text = << >>
  /\ lines = << >>
  /\ current_pos = 0
  /\ found = << >>
  /\ clean = << >>
  /\ input = None

\* parse_document without self.blocks.clear()
ParseDocument_NoClear(t) ==
  LET r == ParseBlocks(parser_registry, Detect(t), blocks)
  IN /\ blocks' = r.blocks
     /\ dirty_blocks' = {}
     /\ last' = Call("parse_document", 0, t, r.result)
     /\ UNCHANGED registryVars
     /\ UNCHANGED << detectVars, input >>

\* parse_document without self.dirty_blocks.clear()
ParseDocument_KeepsDirty(t) ==
  LET r == ParseDocumentResult(parser_registry, t)
  IN /\ blocks' = r.blocks
     /\ UNCHANGED dirty_blocks
     /\ last' = Call("parse_document", 0, t, r.result)
     /\ UNCHANGED registryVars
     /\ UNCHANGED << detectVars, input >>

ParseDocument(t) ==
  LET r == ParseDocumentResult(parser_registry, t)
  IN /\ blocks' = r.blocks
     /\ dirty_blocks' = {}
     /\ last' = Call("parse_document", 0, t, r.result)
     /\ UNCHANGED registryVars
     /\ UNCHANGED << detectVars, input >>

\* a call that leaves the manager in r.blocks, r.dirty and returns r.result
Commit(op, index, arg, r) ==
  /\ blocks' = r.blocks
  /\ dirty_blocks' = r.dirty
  /\ last' = Call(op, index, arg, r.result)
  /\ UNCHANGED registryVars
  /\ UNCHANGED << detectVars, input >>

BlockMut(index) ==
  /\ dirty_blocks' = IF index < Len(blocks) THEN dirty_blocks \cup {index}
                     ELSE dirty_blocks
  /\ last' = Call("block_mut", index, None,
                  Ok(IF index < Len(blocks) THEN Some(blocks[index + 1])
                     ELSE None))
  /\ UNCHANGED << blocks, registryVars >>
  /\ UNCHANGED << detectVars, input >>

UpdateBlockText(index, new_text) ==
  Commit("update_block_text", index, new_text,
         UpdateBlockTextResult(blocks, dirty_blocks, parser_registry,
                               index, new_text))

\* clear_dirty that clears the blocks as well
ClearDirty_DropsBlocks ==
  /\ dirty_blocks' = {}
  /\ blocks' = << >>
  /\ last' = Call("clear_dirty", 0, None, Ok(None))
  /\ UNCHANGED registryVars
  /\ UNCHANGED << detectVars, input >>

ClearDirty ==
  /\ dirty_blocks' = {}
  /\ last' = Call("clear_dirty", 0, None, Ok(None))
  /\ UNCHANGED << blocks, registryVars >>
  /\ UNCHANGED << detectVars, input >>

InsertBlock(index, block) ==
  /\ Len(blocks) < MaxBlocks
  /\ Commit("insert_block", index, block,
            InsertBlockResult(blocks, dirty_blocks, index, block))

RemoveBlock(index) ==
  Commit("remove_block", index, None,
         RemoveBlockResult(blocks, dirty_blocks, index))

RenderDocument ==
  /\ last' = Call("render_document", 0, None,
                  RenderDocumentResult(parser_registry, blocks))
  /\ UNCHANGED << blocks, dirty_blocks, registryVars >>
  /\ UNCHANGED << detectVars, input >>

Next ==
  \/ \E t \in EditTexts : ParseDocument(t) /\ UNCHANGED clean
  \/ \E i \in 0..Len(blocks) : BlockMut(i) /\ UNCHANGED clean
  \/ \E i \in 0..Len(blocks), t \in UpdateTexts :
       UpdateBlockText(i, t) /\ UNCHANGED clean
  \/ ClearDirty /\ UNCHANGED clean
  \/ \E i \in 0..(Len(blocks) + 1), b \in InsertBlocks :
       InsertBlock(i, b) /\ UNCHANGED clean
  \/ \E i \in 0..Len(blocks) : RemoveBlock(i) /\ UNCHANGED clean
  \/ RenderDocument /\ UNCHANGED clean

Spec == Init /\ [][Next]_vars


(***************************************************************************)
(* The parse-and-render pipeline on one document: the manager is created,  *)
(* may already hold an inserted block, parses `text` and renders it.       *)
(***************************************************************************)
InitDoc ==
  /\ \E calls \in DocRegistryCalls :
       /\ registered = calls
       /\ ManagerNew(RegisterAll(RegistryNew, calls))
  /\ text \in DocTexts
  /\ lines = << >>
  /\ current_pos = 0
  /\ found = << >>
  /\ clean = << >>
  /\ input = None

SeedInsert ==
  /\ last.op = "new"
  /\ \E b \in InsertBlocks : InsertBlock(0, b)

NextDoc ==
  \/ SeedInsert /\ UNCHANGED clean
  \/ ParseDocument(text) /\ UNCHANGED clean
  \/ RenderDocument /\ UNCHANGED clean

SpecDoc == InitDoc /\ [][NextDoc]_vars


(***************************************************************************)
(* Properties of the BlockManager                                          *)
(***************************************************************************)
\* the block a parser builds from a detected SyntaxBlock
ParsedBlock(reg, raw_block) ==
  LET r == ParserParse(RegistryGet(reg, raw_block.syntax)[1],
                       raw_block.content, raw_block.start_line)
  IN [syntax |-> raw_block.syntax, raw_text |-> raw_block.content,
      ast |-> r.value[1], metadata |-> r.value[2],
      line_range |-> << raw_block.start_line, raw_block.end_line >>]

\* C3: after insert_block(i, b) with i <= block_count and after
\* remove_block(i) with i < block_count, every index from i to the end of the
\* new collection is in the dirty set.
C3_TailDirtyAfterInsertRemove ==
  (\/ last.op = "insert_block" /\ last.result.tag = "Ok"
   \/ last.op = "remove_block" /\ last.result.value # None)
    => \A j \in last.index..(Len(blocks) - 1) : j \in dirty_blocks

C3_Witness ==
  /\ last.op = "insert_block"
  /\ last.result.tag = "Ok"
  /\ last.index = 0
  /\ Len(blocks) = 2

\* C4: a freshly created manager has no blocks and no dirty index, and
\* clear_dirty empties the dirty set and leaves the block sequence as it was.
C4_ClearDirtyFrame ==
  /\ [](last.op = "new" => blocks = << >> /\ dirty_blocks = {})
  /\ [][last'.op = "clear_dirty" => dirty_blocks' = {} /\ blocks' = blocks]_vars

C4_Witness ==
  /\ last.op = "clear_dirty"
  /\ Len(blocks) = 2
  /\ dirty_blocks = {}

\* C5: a successful update_block_text(i, t) sets raw_text, ast and metadata of
\* block i to t and the result of its own parser on t at line_range.0, adds i
\* to the dirty set and changes nothing else.
C5_UpdateFrame ==
  [][(last'.op = "update_block_text" /\ last'.result.tag = "Ok") =>
       LET i == last'.index
           t == last'.arg
           old == blocks[i + 1]
           parser == RegistryGet(parser_registry, old.syntax)
           r == ParserParse(parser[1], t, old.line_range[1])
       IN /\ i < Len(blocks)
          /\ parser # None
          /\ r.tag = "Ok"
          /\ Len(blocks') = Len(blocks)
          /\ blocks'[i + 1] = [syntax |-> old.syntax, raw_text |-> t,
                               ast |-> r.value[1], metadata |-> r.value[2],
                               line_range |-> old.line_range]
          /\ \A j \in 1..Len(blocks) : j # i + 1 => blocks'[j] = blocks[j]
          /\ dirty_blocks' = dirty_blocks \cup {i}]_vars

C5_Witness ==
  /\ last.op = "update_block_text"
  /\ last.result.tag = "Ok"
  /\ Len(blocks) = 2
  /\ last.index = 1
  /\ blocks[2].metadata.heading_level = Some(1)
  /\ blocks[2].raw_text = L_head

\* C6: when update_block_text(i, t) has an index out of range, no parser for
\* the block's kind, or a parser that returns an error, it returns Err and the
\* blocks and the dirty set stay as they were.
C6_FailedUpdateUnchanged ==
  [][last'.op = "update_block_text" =>
       LET i == last'.index
           t == last'.arg
           parser == RegistryGet(parser_registry, blocks[i + 1].syntax)
           fails ==
             \/ i >= Len(blocks)
             \/ parser = None
             \/ ParserParse(parser[1], t, blocks[i + 1].line_range[1]).tag
                  = "Err"
       IN fails => /\ last'.result.tag = "Err"
                   /\ blocks' = blocks
                   /\ dirty_blocks' = dirty_blocks]_vars

C6_Witness ==
  /\ last.op = "update_block_text"
  /\ last.result.tag = "Err"
  /\ last.result.value[1] = "Syntax error at line"
  /\ last.index < Len(blocks)
  /\ last.index \notin dirty_blocks

\* C7: after a successful parse_document(text) the manager holds exactly one
\* block per detected SyntaxBlock, in detection order, each with the detected
\* kind, content and line range and its parser's result, and the dirty set is
\* empty.
C7_ParseDocumentResult ==
  (last.op = "parse_document" /\ last.result.tag = "Ok") =>
    LET d == Detect(last.arg)
    IN /\ Len(blocks) = Len(d)
       /\ \A k \in 1..Len(d) :
            /\ RegistryGet(parser_registry, d[k].syntax) # None
            /\ blocks[k] = ParsedBlock(parser_registry, d[k])
       /\ dirty_blocks = {}

C7_Witness ==
  /\ last.op = "parse_document"
  /\ last.result.tag = "Ok"
  /\ Len(blocks) = 3
  /\ blocks[1].syntax = "Markdown"
  /\ blocks[2].syntax = "LaTeX"
  /\ blocks[2].line_range = << 1, 1 >>

\* the 1-based positions of the detected blocks whose kind has no parser
Unregistered(reg, d) ==
  {k \in 1..Len(d) : RegistryGet(reg, d[k].syntax) = None}

\* C8: when a detected block's kind has no registered parser, parse_document
\* returns Err naming that kind, and the manager holds only the blocks parsed
\* before the failing one, with an empty dirty set.
C8_ParseDocumentMissingParser ==
  (last.op = "parse_document"
     /\ Unregistered(parser_registry, Detect(last.arg)) # {}) =>
    LET d == Detect(last.arg)
        k0 == Min(Unregistered(parser_registry, d))
    IN /\ last.result = Err(NoParserFor(d[k0].syntax))
       /\ Len(blocks) = k0 - 1
       /\ \A k \in 1..(k0 - 1) : blocks[k] = ParsedBlock(parser_registry, d[k])
       /\ dirty_blocks = {}

C8_Witness ==
  /\ last.op = "parse_document"
  /\ last.result = Err(NoParserFor("Code"))
  /\ Len(blocks) = 1
  /\ blocks[1].syntax = "Markdown"

\* the renderings of the blocks bs, in order
Renderings(reg, bs) ==
  [k \in 1..Len(bs) |->
     ParserRender(RegistryGet(reg, bs[k].syntax)[1], bs[k].ast,
                  bs[k].metadata)]

\* C9: render_document returns the blocks' renderings in document order joined
\* by one newline with trailing whitespace trimmed when every kind has a
\* parser, returns Err naming the kind of the first block without one
\* otherwise, and changes neither the blocks nor the dirty set.
C9_RenderDocument ==
  /\ [](last.op = "render_document" =>
          LET missing == {k \in 1..Len(blocks) :
                            RegistryGet(parser_registry, blocks[k].syntax)
                              = None}
          IN IF missing = {}
             THEN last.result =
                    Ok(TrimEnd(Join(Renderings(parser_registry, blocks),
                                    << NL >>)))
             ELSE last.result = Err(NoParserFor(blocks[Min(missing)].syntax)))
  /\ [][last'.op = "render_document" =>
          blocks' = blocks /\ dirty_blocks' = dirty_blocks]_vars

C9_Witness ==
  /\ last.op = "render_document"
  /\ last.result.tag = "Ok"
  /\ Len(blocks) = 3
  /\ Len(last.result.value) > 0
  /\ blocks[1].syntax # blocks[2].syntax

SyntaxKinds(d) == [k \in 1..Len(d) |-> d[k].syntax]

\* C10: when parse_document(text) succeeded and the manager holds its result,
\* detecting the output of render_document gives as many blocks as detecting
\* the text, with the same kinds in the same order.
C10_RedetectSameKinds ==
  (/\ last.op = "render_document"
   /\ last.result.tag = "Ok"
   /\ ParseDocumentResult(parser_registry, text).result.tag = "Ok"
   /\ ParseDocumentResult(parser_registry, text).blocks = blocks)
    => SyntaxKinds(Detect(last.result.value)) = SyntaxKinds(Detect(text))

(***************************************************************************)
(* C11: the end-to-end scenario                                            *)
(***************************************************************************)
ScenarioCode == Join(<< L_fence_py, L_a, L_fence >>, << NL >>)

\* C11: for the document of a heading line, a paragraph line and a py fenced
\* code block separated by blank lines, detect returns three blocks (heading,
\* paragraph, code) in that order, and a manager holding MarkdownParser,
\* OrgParser and LaTeXParser parses it with parse_document and renders it with
\* render_document to the three block texts joined by single newlines.
C11_EndToEndScenario ==
  (text = ScenarioText /\ parser_registry = RepoRegistry) =>
    /\ [k \in 1..Len(Detect(text)) |-> Detect(text)[k].content]
         = << L_head, L_a, ScenarioCode >>
    /\ SyntaxKinds(Detect(text)) = << "Markdown", "Markdown", "Code" >>
    /\ (last.op = "parse_document" =>
          last.result = Ok(None) /\ Len(blocks) = 3)
    /\ (last.op = "render_document" /\ Len(blocks) = 3 =>
          last.result = Ok(Join(<< L_head, L_a, ScenarioCode >>, << NL >>)))

(***************************************************************************)
(* ParserRegistry on its own: new, then register and get calls             *)
(***************************************************************************)
RegistryInit ==
  /\ parser_registry = RegistryNew
  /\ registered = << >>
  /\ last = Call("registry_new", 0, None, Ok(None))
  /\ blocks = << >>
  /\ dirty_blocks = {}
  /\ text = << >>
  /\ lines = << >>
  /\ current_pos = 0
  /\ found = << >>
  /\ clean = << >>
  /\ input = None

RegistryRegister(p) ==
  /\ Len(registered) < MaxRegisters
  /\ parser_registry' = Register(parser_registry, p)
  /\ registered' = Append(registered, p)
  /\ last' = Call("register", 0, p, Ok(None))
  /\ UNCHANGED << blocks, dirty_blocks >>
  /\ UNCHANGED << detectVars, input, clean >>

RegistryGetCall(syntax) ==
  /\ last' = Call("get", 0, syntax, RegistryGet(parser_registry, syntax))
  /\ UNCHANGED << blocks, dirty_blocks, registryVars >>
  /\ UNCHANGED << detectVars, input, clean >>

RegistryNext ==
  \/ \E p \in Parsers : RegistryRegister(p)
  \/ \E syntax \in SyntaxKind : RegistryGetCall(syntax)

SpecRegistry == RegistryInit /\ [][RegistryNext]_vars

\* the parser most recently registered whose syntax_kind() is k, as Option
LatestRegistered(calls, k) ==
  LET of_kind == {i \in 1..Len(calls) : ParserSyntaxKind(calls[i]) = k}
  IN IF of_kind = {} THEN None
     ELSE Some(calls[CHOOSE i \in of_kind : \A j \in of_kind : j <= i])

\* C12: after any sequence of register calls, get(k) returns the parser most
\* recently registered whose syntax_kind() is k and none iff no parser of kind
\* k was ever registered; the registry holds at most one parser per kind, and
\* get never changes the registry.
C12_RegistryGet ==
  /\ [](\A k \in SyntaxKind :
          /\ RegistryGet(parser_registry, k) = LatestRegistered(registered, k)
          /\ Len(RegistryGet(parser_registry, k)) <= 1)
  /\ [](last.op = "get" =>
          last.result = LatestRegistered(registered, last.arg))
  /\ [][last'.op = "get" => parser_registry' = parser_registry]_vars

C12_Witness ==
  /\ last.op = "get"
  /\ \E i, j \in 1..Len(registered) :
       /\ i < j
       /\ registered[i] # registered[j]
       /\ ParserSyntaxKind(registered[i]) = last.arg
       /\ ParserSyntaxKind(registered[j]) = last.arg
       /\ last.result = Some(registered[j])
  /\ \E k \in SyntaxKind : RegistryGet(parser_registry, k) = None

(***************************************************************************)
(* build_section_tree (src/src/document/tree.rs)                           *)
(***************************************************************************)
BlockNode(id, block) == [id |-> id, block |-> block]

Section(id, level, title, bs, children) ==
  [id |-> id, level |-> level, title |-> title, blocks |-> bs,
   children |-> children]

\* stack.pop() pushed onto the children of the new stack top
PopAttach(stack) ==
  LET n == Len(stack)
  IN [SubSeq(stack, 1, n - 1) EXCEPT
        ![n - 1].children = Append(@, stack[n])]

\* the heading branch's while loop with `>` for `>=`
RECURSIVE PopFinished_Strict(_, _)
PopFinished_Strict(stack, level) ==
  IF Len(stack) > 1 /\ stack[Len(stack)].level > level
  THEN PopFinished_Strict(PopAttach(stack), level)
  ELSE stack

\* while stack.len() > 1 && stack.last().level >= level: pop and attach
RECURSIVE PopFinished(_, _)
PopFinished(stack, level) ==
  IF Len(stack) > 1 /\ stack[Len(stack)].level >= level
  THEN PopFinished(PopAttach(stack), level)
  ELSE stack

\* while stack.len() > 1: pop and attach
RECURSIVE CloseAll(_)
CloseAll(stack) ==
  IF Len(stack) > 1 THEN CloseAll(PopAttach(stack)) ELSE stack

\* one iteration that files every non-heading node under the root
TreeStep_ToRoot(stack, node) ==
  IF node.block.leaf = "Heading"
  THEN Append(PopFinished(stack, node.block.level),
              Section(node.id, node.block.level, Some(node.block.content),
                      << >>, << >>))
  ELSE [stack EXCEPT ![1].blocks = Append(@, node)]

\* one iteration of `for node in blocks`
TreeStep(stack, node) ==
  IF node.block.leaf = "Heading"
  THEN Append(PopFinished(stack, node.block.level),
              Section(node.id, node.block.level, Some(node.block.content),
                      << >>, << >>))
  ELSE [stack EXCEPT ![Len(stack)].blocks = Append(@, node)]

RECURSIVE TreeLoop(_, _)
TreeLoop(stack, nodes) ==
  IF nodes = << >> THEN stack
  ELSE TreeLoop(TreeStep(stack, Head(nodes)), Tail(nodes))

BuildSectionTree(nodes) ==
  CloseAll(TreeLoop(<< Section(0, 0, None, << >>, << >>) >>, nodes))[1]

\* the tests' heading(id, level, text) and para(id, text); 0 stands for a
\* paragraph, and the ids are the positions 1..n as in the tests
TreeNode(id, kind) ==
  IF kind = 0 THEN BlockNode(id, Paragraph(<< InlineText(L_a) >>))
  ELSE BlockNode(id, Heading(kind, << InlineText(L_a) >>))

TreeNodes(kinds) == [i \in 1..Len(kinds) |-> TreeNode(i, kinds[i])]

TreeInputs == {TreeNodes(kinds) : kinds \in SeqsUpTo(0..MaxLevel, MaxNodes)}

Idle == Call("idle", 0, None, None)

TreeInit ==
  /\ input \in TreeInputs
  /\ last = Idle
  /\ blocks = << >>
  /\ dirty_blocks = {}
  /\ parser_registry = RegistryNew
  /\ registered = << >>
  /\ text = << >>
  /\ lines = << >>
  /\ current_pos = 0
  /\ found = << >>
  /\ clean = << >>

BuildSectionTreeCall ==
  /\ last = Idle
  /\ last' = Call("build_section_tree", 0, input, BuildSectionTree(input))
  /\ UNCHANGED << blocks, dirty_blocks, registryVars, input, clean >>
  /\ UNCHANGED detectVars

SpecTree == TreeInit /\ [][BuildSectionTreeCall]_vars

Max(S) == CHOOSE x \in S : \A y \in S : y <= x

HeadingPositions(nodes) ==
  {i \in 1..Len(nodes) : nodes[i].block.leaf = "Heading"}

\* the id of the section a heading's section belongs under: the nearest
\* preceding heading of strictly smaller level, or the root (id 0)
NearestSmaller(nodes, i) ==
  LET smaller == {j \in HeadingPositions(nodes) :
                    j < i /\ nodes[j].block.level < nodes[i].block.level}
  IN IF smaller = {} THEN 0 ELSE Max(smaller)

\* the << parent id, child id >> pairs of a section tree
RECURSIVE ChildEdges(_)
ChildEdges(section) ==
  {<< section.id, section.children[k].id >> :
     k \in 1..Len(section.children)}
    \cup UNION {ChildEdges(section.children[k]) :
                  k \in 1..Len(section.children)}

\* children deeper than their parent and in input order, at every depth
RECURSIVE WellNested(_)
WellNested(section) ==
  \A k \in 1..Len(section.children) :
    /\ section.children[k].level > section.level
    /\ k > 1 => section.children[k - 1].id < section.children[k].id
    /\ WellNested(section.children[k])

\* C13: for nodes whose headings have level >= 1, build_section_tree makes
\* each heading's section a child of the section of the nearest preceding
\* heading with a strictly smaller level, or of the level-0 root when there
\* is none; every child is deeper than its parent, siblings are in input
\* order, level skips are accepted, and levels [1,2,1] give a root with two
\* level-1 children, the first having one level-2 child.
C13_SectionTree ==
  last.op = "build_section_tree" =>
    LET nodes == last.arg
        root == last.result
    IN /\ root.id = 0 /\ root.level = 0
       /\ ChildEdges(root) =
            {<< NearestSmaller(nodes, i), i >> : i \in HeadingPositions(nodes)}
       /\ WellNested(root)
       /\ nodes = TreeNodes(<< 1, 2, 1 >>) =>
            /\ Len(root.children) = 2
            /\ root.children[1].level = 1 /\ root.children[2].level = 1
            /\ Len(root.children[1].children) = 1
            /\ root.children[1].children[1].level = 2
            /\ root.children[2].children = << >>

\* a level skip (1 then 3) followed by a return to level 2 under the same
\* level-1 section
C13_Witness ==
  /\ last.op = "build_section_tree"
  /\ last.arg = TreeNodes(<< 1, 3, 0, 2 >>)
  /\ Len(last.result.children) = 1
  /\ Len(last.result.children[1].children) = 2
  /\ Len(last.result.children[1].children[1].blocks) = 1

(***************************************************************************)
(* Inline parsing and serialization (src/src/formats/markdown.rs)          *)
(***************************************************************************)
InlineBold(content) == [inline |-> "Bold", content |-> content]
InlineItalic(content) == [inline |-> "Italic", content |-> content]
InlineStrikethrough(content) ==
  [inline |-> "Strikethrough", content |-> content]
InlineCode(code) == [inline |-> "Code", code |-> code]
InlineMath(content) == [inline |-> "Math", content |-> content]
InlineImage(alt_text, src) ==
  [inline |-> "Image", alt_text |-> alt_text, src |-> src]
InlineLink(t, target) == [inline |-> "Link", text |-> t, target |-> target]

\* parse_until: the text before the first occurrence of the delimiter, and
\* what follows that occurrence (nothing when there is none)
ParseUntil(s, delimiter) ==
  IF Occurrences(s, delimiter) = {}
  THEN [buffer |-> s, rest |-> << >>]
  ELSE [buffer |-> Take(s, Min(Occurrences(s, delimiter)) - 1),
        rest |-> Drop(s, Min(Occurrences(s, delimiter)) - 1
                           + Len(delimiter))]

\* consume_delimiter: for each delimiter char in turn, skip it if it is next
RECURSIVE ConsumeDelimiter(_, _)
ConsumeDelimiter(s, delimiter) ==
  IF delimiter = << >> THEN s
  ELSE ConsumeDelimiter(
         IF s # << >> /\ Head(s) = Head(delimiter) THEN Tail(s) ELSE s,
         Tail(delimiter))

\* the text parse_until collects, and the input left after parse_until and
\* consume_delimiter
Until(s, delimiter) == ParseUntil(s, delimiter).buffer
After(s, delimiter) ==
  ConsumeDelimiter(ParseUntil(s, delimiter).rest, delimiter)

InlineSpecials == {"*", BQ, "[", "!", "$", "~"}

\* the length of the run of plain characters at the start of s
PlainRun(s) ==
  IF \A k \in 1..Len(s) : s[k] \notin InlineSpecials THEN Len(s)
  ELSE Min({k \in 1..Len(s) : s[k] \in InlineSpecials}) - 1

Opt(s) == IF s = << >> THEN None ELSE Some(s)

RECURSIVE ParseInlines(_)
\* the '!' arm once "![" was seen: s is the input after "!["
ParseInlineImage(s) ==
  IF StartsWith(After(s, << "]" >>), << "(" >>)
  THEN << InlineImage(Opt(Until(s, << "]" >>)),
                      Until(Tail(After(s, << "]" >>)), << ")" >>)) >>
         \o ParseInlines(After(Tail(After(s, << "]" >>)), << ")" >>))
  ELSE << InlineText(<< "!" >>) >>
         \o ParseInlines(Drop(After(s, << "]" >>), 1))

\* the '[' arm: s is the input after "["
ParseInlineLink(s) ==
  IF StartsWith(s, << "[" >>)
  THEN << InlineLink(<< InlineText(Until(Tail(s), << "]", "]" >>)) >>,
                     Until(Tail(s), << "]", "]" >>)) >>
         \o ParseInlines(After(Tail(s), << "]", "]" >>))
  ELSE IF StartsWith(After(s, << "]" >>), << "(" >>)
  THEN << InlineLink(ParseInlines(Until(s, << "]" >>)),
                     Until(Tail(After(s, << "]" >>)), << ")" >>)) >>
         \o ParseInlines(After(Tail(After(s, << "]" >>)), << ")" >>))
  ELSE << InlineText(<< "[" >> \o Until(s, << "]" >>) \o << "]" >>) >>
         \o ParseInlines(After(s, << "]" >>))

ParseInlines(s) ==
  IF s = << >> THEN << >>
  ELSE CASE Head(s) = "*" ->
              IF StartsWith(Tail(s), << "*" >>)
              THEN << InlineBold(ParseInlines(Until(Drop(s, 2),
                                                    << "*", "*" >>))) >>
                     \o ParseInlines(After(Drop(s, 2), << "*", "*" >>))
              ELSE << InlineItalic(ParseInlines(Until(Tail(s),
                                                      << "*" >>))) >>
                     \o ParseInlines(After(Tail(s), << "*" >>))
         [] Head(s) = "~" ->
              IF StartsWith(Tail(s), << "~" >>)
              THEN << InlineStrikethrough(
                        ParseInlines(Until(Drop(s, 2), << "~", "~" >>))) >>
                     \o ParseInlines(After(Drop(s, 2), << "~", "~" >>))
              ELSE << InlineText(<< "~" >>) >> \o ParseInlines(Tail(s))
         [] Head(s) = BQ ->
              << InlineCode(Until(Tail(s), << BQ >>)) >>
                \o ParseInlines(After(Tail(s), << BQ >>))
         [] Head(s) = "!" ->
              IF StartsWith(Tail(s), << "[" >>)
              THEN ParseInlineImage(Drop(s, 2))
              ELSE << InlineText(<< "!" >>) >> \o ParseInlines(Tail(s))
         [] Head(s) = "$" ->
              << InlineMath(Until(Tail(s), << "$" >>)) >>
                \o ParseInlines(After(Tail(s), << "$" >>))
         [] Head(s) = "[" -> ParseInlineLink(Tail(s))
         [] OTHER ->
              << InlineText(Take(s, PlainRun(s))) >>
                \o ParseInlines(Drop(s, PlainRun(s)))

(***************************************************************************)
(* Block parsing (src/src/formats/markdown.rs)                             *)
(***************************************************************************)
Image(alt_text, src) == [leaf |-> "Image", alt_text |-> alt_text, src |-> src]
Quote(bs) == [container |-> "Quote", blocks |-> bs]
List(style, items) == [container |-> "List", style |-> style, items |-> items]
Table(headers, rows, alignments, caption) ==
  [container |-> "Table", headers |-> headers, rows |-> rows,
   alignments |-> alignments, caption |-> caption]
Unordered(bullet) == [list |-> "Unordered", bullet |-> bullet]
OrderedDecimalDot == [list |-> "Ordered", kind |-> "Decimal", style |-> "Dot"]

IsAsciiDigit(c) == c \in {"0", "1", "2", "3", "4", "5", "6", "7", "8", "9"}

\* str::find from a 1-based position: the first occurrence at or after
\* `from`, 0 when there is none
FindFrom(s, p, from) ==
  IF {k \in Occurrences(s, p) : k >= from} = {} THEN 0
  ELSE Min({k \in Occurrences(s, p) : k >= from})

EndsWith(s, p) ==
  Len(p) <= Len(s) /\ SubSeq(s, Len(s) - Len(p) + 1, Len(s)) = p

\* parse_markdown_header with a trimmed line whose level is n and whose
\* character after the hashes is checked
HeaderOf(trimmed, level) ==
  IF level = 0 \/ Len(trimmed) <= level \/ trimmed[level + 1] # " "
  THEN None
  ELSE Some(Heading(level,
                    << InlineText(Trim(Drop(trimmed, level + 1))) >>))

ParseMarkdownHeader(line) ==
  HeaderOf(TrimStart(line), LeadingCount(TrimStart(line), "#"))

\* parse_image given the positions (1-based, 0 for none) of "![", of the
\* first "]" from there, of the first "(" from that "]", and of the first
\* ")" after that "("
ImageOf(line, start, end_alt, paren, paren_end) ==
  IF start = 0 \/ end_alt = 0 \/ paren = 0 \/ paren_end = 0 THEN None
  ELSE Some([alt |-> Opt(SubSeq(line, start + 2, end_alt - 1)),
             src |-> SubSeq(line, paren + 1, paren_end - 1)])

ImageParen(line, start, end_alt) ==
  IF end_alt = 0 THEN None
  ELSE ImageOf(line, start, end_alt, FindFrom(line, << "(" >>, end_alt),
               IF FindFrom(line, << "(" >>, end_alt) = 0 THEN 0
               ELSE FindFrom(line, << ")" >>,
                             FindFrom(line, << "(" >>, end_alt) + 1))

ParseImage(line) ==
  IF FindFrom(line, << "!", "[" >>, 1) = 0 THEN None
  ELSE ImageParen(line, FindFrom(line, << "!", "[" >>, 1),
                  FindFrom(line, << "]" >>, FindFrom(line, << "!", "[" >>, 1)))

\* format!("![{}]({})", alt.unwrap_or(""), src)
ImageLine(img) ==
  << "!", "[" >> \o (IF img.alt = None THEN << >> ELSE img.alt[1])
    \o << "]", "(" >> \o img.src \o << ")" >>

RECURSIVE Split(_, _)
\* str::split(c): the pieces between occurrences of the character c
Split(s, c) ==
  IF \A k \in 1..Len(s) : s[k] # c THEN << s >>
  ELSE << Take(s, Min({k \in 1..Len(s) : s[k] = c}) - 1) >>
         \o Split(Drop(s, Min({k \in 1..Len(s) : s[k] = c})), c)

Cells(row) ==
  [k \in 1..Len(Split(row, "|")) |-> ParseInlines(Trim(Split(row, "|")[k]))]

IsAlignmentLine(l) ==
  \A k \in 1..Len(Trim(l)) :
    Trim(l)[k] \in {"-", ":", "|"} \/ IsWhitespace(Trim(l)[k])

AlignmentOf(cell) ==
  IF StartsWith(cell, << ":" >>) /\ EndsWith(cell, << ":" >>) THEN "Center"
  ELSE IF StartsWith(cell, << ":" >>) THEN "Left"
  ELSE IF EndsWith(cell, << ":" >>) THEN "Right"
  ELSE "Left"

Alignments(l) ==
  [k \in 1..Len(Split(l, "|")) |-> AlignmentOf(Trim(Split(l, "|")[k]))]

\* parse_table on the lines that contain '|'
TableOf(ls) ==
  IF Len(ls) < 2 THEN None
  ELSE IF IsAlignmentLine(ls[2])
  THEN Some(Table(Cells(ls[1]),
                  [k \in 1..(Len(ls) - 2) |-> Cells(ls[k + 2])],
                  Some(Alignments(ls[2])), None))
  ELSE Some(Table(Cells(ls[1]),
                  [k \in 1..(Len(ls) - 1) |-> Cells(ls[k + 1])],
                  None, None))

ParseTable(md) ==
  TableOf(SelectSeq(Lines(md), LAMBDA l : Contains(l, << "|" >>)))

Indent(line) == Len(line) - Len(TrimStart(line))

\* the marker of a list item line: its style and the text after the marker,
\* or None when the trimmed line has no list marker
ListMarker(trimmed) ==
  IF StartsWith(trimmed, << "-", " " >>)
  THEN Some([style |-> Unordered("-"), content |-> Drop(trimmed, 2)])
  ELSE IF StartsWith(trimmed, << "*", " " >>)
  THEN Some([style |-> Unordered("*"), content |-> Drop(trimmed, 2)])
  ELSE IF StartsWith(trimmed, << "+", " " >>)
  THEN Some([style |-> Unordered("+"), content |-> Drop(trimmed, 2)])
  ELSE IF FindFrom(trimmed, << "." >>, 1) = 0 THEN None
  ELSE IF /\ \A k \in 1..(FindFrom(trimmed, << "." >>, 1) - 1) :
               IsAsciiDigit(trimmed[k])
          /\ StartsWith(Drop(trimmed, FindFrom(trimmed, << "." >>, 1)),
                        << " " >>)
  THEN Some([style |-> OrderedDecimalDot,
             content |-> Drop(trimmed, FindFrom(trimmed, << "." >>, 1) + 1)])
  ELSE None

\* parse_list_item's while loop from line i (1-based): blank lines are
\* skipped, deeper lines collected, the first other line ends the item
RECURSIVE NestedLines(_, _, _, _)
NestedLines(ls, i, indent, nested) ==
  IF i > Len(ls) THEN [nested |-> nested, next |-> i]
  ELSE IF TrimStart(ls[i]) = << >> THEN NestedLines(ls, i + 1, indent, nested)
  ELSE IF Indent(ls[i]) > indent
  THEN NestedLines(ls, i + 1, indent, Append(nested, ls[i]))
  ELSE [nested |-> nested, next |-> i]

RECURSIVE FmtParseBlocks(_)

\* the end of parse_list_item, given the marker and the nested lines
ListItemOf(marker, n) ==
  [blocks |-> << Paragraph(ParseInlines(Trim(marker.content))) >>
                \o (IF n.nested = << >> THEN << >>
                    ELSE FmtParseBlocks(Join(n.nested, << NL >>))),
   next |-> n.next,
   style |-> marker.style]

\* parse_list_item at the 1-based line start_index
ParseListItem(ls, start_index) ==
  IF start_index > Len(ls) THEN None
  ELSE IF ListMarker(TrimStart(ls[start_index])) = None THEN None
  ELSE Some(ListItemOf(ListMarker(TrimStart(ls[start_index]))[1],
                       NestedLines(ls, start_index + 1,
                                   Indent(ls[start_index]), << >>)))

\* parse_list's while loop
RECURSIVE ListLoop(_, _, _, _)
ListLoop(ls, i, items, list_style) ==
  IF i > Len(ls) THEN [items |-> items, style |-> list_style]
  ELSE IF ParseListItem(ls, i) = None
  THEN ListLoop(ls, i + 1, items, list_style)
  ELSE ListLoop(ls, ParseListItem(ls, i)[1].next,
                Append(items, ParseListItem(ls, i)[1].blocks),
                IF list_style = None THEN Some(ParseListItem(ls, i)[1].style)
                ELSE list_style)

ListOf(r) ==
  IF r.items = << >> THEN None
  ELSE Some(List(IF r.style = None THEN Unordered("-") ELSE r.style[1],
                 r.items))

ParseList(md) ==
  IF Lines(md) = << >> THEN None
  ELSE ListOf(ListLoop(Lines(md), 1, << >>, None))

Step(out, next) == [out |-> out, next |-> next]

\* the fenced-code arm: lines up to the first line that trims to the fence
\* (or to the end) are the content; ls[i] is the opening line
FenceClose(ls, i) ==
  IF {j \in (i + 1)..Len(ls) : Trim(ls[j]) = FENCE} = {} THEN Len(ls) + 1
  ELSE Min({j \in (i + 1)..Len(ls) : Trim(ls[j]) = FENCE})

CodeStep(ls, i, language) ==
  Step(<< CodeBlock(Opt(language),
                    Join(SubSeq(ls, i + 1, FenceClose(ls, i) - 1),
                         << NL >>)) >>,
       FenceClose(ls, i) + 1)

\* the multi-line math arm's for loop from line j with full_content = full
RECURSIVE MathLoop(_, _, _)
MathLoop(ls, j, full) ==
  IF j > Len(ls) THEN [content |-> full, next |-> j]
  ELSE IF EndsWith(TrimEnd(ls[j]), DOLLARS)
  THEN [content |-> (IF full # << >> THEN full \o << NL >> ELSE full)
                      \o Take(TrimEnd(ls[j]), Len(TrimEnd(ls[j])) - 2),
        next |-> j + 1]
  ELSE MathLoop(ls, j + 1,
                (IF full # << >> THEN full \o << NL >> ELSE full)
                  \o TrimEnd(ls[j]))

\* if full_content.ends_with('\n') { full_content.pop(); }
PopNewline(s) == IF EndsWith(s, << NL >>) THEN Take(s, Len(s) - 1) ELSE s

MathMulti(r) == Step(<< MathBlock(PopNewline(r.content)) >>, r.next)

\* the math arm: content is the trimmed line after its leading "$$"
MathStep(ls, i, content) ==
  IF EndsWith(content, DOLLARS)
  THEN Step(<< MathBlock(Take(content, Len(content) - 2)) >>, i + 1)
  ELSE MathMulti(MathLoop(ls, i + 1, content))

\* the quote arm: the index after the run of lines starting with '>'
RECURSIVE QuoteEnd(_, _)
QuoteEnd(ls, j) ==
  IF j <= Len(ls) /\ StartsWith(TrimStart(ls[j]), << ">" >>)
  THEN QuoteEnd(ls, j + 1) ELSE j

QuoteClean(l) == TrimStart(TrimStartMatches(TrimStart(l), ">"))

QuoteInner(ls, i, end) ==
  Trim(Join([k \in 1..(end - i) |->
               IF k = 1 THEN QuoteClean(Trim(ls[i]))
               ELSE QuoteClean(ls[i + k - 1])], << NL >>))

QuoteStep(ls, i, end) ==
  Step(IF QuoteInner(ls, i, end) = << >> THEN << >>
       ELSE << Quote(FmtParseBlocks(QuoteInner(ls, i, end))) >>,
       end)

IsListStart(t) ==
  \/ StartsWith(t, << "-", " " >>)
  \/ StartsWith(t, << "*", " " >>)
  \/ StartsWith(t, << "+", " " >>)
  \/ (t # << >> /\ IsAsciiDigit(t[1]))

\* the list arm: the index after the run of list-start or blank lines
RECURSIVE ListEnd(_, _)
ListEnd(ls, j) ==
  IF j <= Len(ls) /\ (IsListStart(TrimStart(ls[j])) \/ TrimStart(ls[j]) = << >>)
  THEN ListEnd(ls, j + 1) ELSE j

ListStep(ls, i, end) ==
  Step(IF ParseList(Join(SubSeq(ls, i, end - 1), << NL >>)) = None THEN << >>
       ELSE << ParseList(Join(SubSeq(ls, i, end - 1), << NL >>))[1] >>,
       end)

\* the arms after the list arm: table, image, paragraph
TailStep(trimmed, i) ==
  IF Contains(trimmed, << "|" >>) /\ ParseTable(trimmed) # None
  THEN Step(<< ParseTable(trimmed)[1] >>, i + 1)
  ELSE IF ParseImage(trimmed) # None
          /\ trimmed = ImageLine(ParseImage(trimmed)[1])
  THEN Step(<< Image(ParseImage(trimmed)[1].alt, ParseImage(trimmed)[1].src) >>,
            i + 1)
  ELSE Step(<< Paragraph(ParseInlines(trimmed)) >>, i + 1)

\* one iteration of parse_blocks' while loop at line i, trimmed = ls[i].trim()
BlockStep(ls, i, trimmed) ==
  IF trimmed = << >> THEN Step(<< >>, i + 1)
  ELSE IF StartsWith(trimmed, FENCE)
  THEN CodeStep(ls, i, Trim(Drop(trimmed, 3)))
  ELSE IF StartsWith(trimmed, DOLLARS)
  THEN MathStep(ls, i, Drop(trimmed, 2))
  ELSE IF ParseMarkdownHeader(trimmed) # None
  THEN Step(<< ParseMarkdownHeader(trimmed)[1] >>, i + 1)
  ELSE IF StartsWith(trimmed, << ">" >>)
  THEN QuoteStep(ls, i, QuoteEnd(ls, i + 1))
  ELSE IF IsListStart(trimmed)
  THEN ListStep(ls, i, ListEnd(ls, i + 1))
  ELSE TailStep(trimmed, i)

RECURSIVE FmtLoop(_, _, _)
FmtAdvance(ls, acc, step) == FmtLoop(ls, step.next, acc \o step.out)

FmtLoop(ls, i, acc) ==
  IF i > Len(ls) THEN acc
  ELSE FmtAdvance(ls, acc, BlockStep(ls, i, Trim(ls[i])))

\* parse_blocks(input)
FmtParseBlocks(md) == FmtLoop(Lines(md), 1, << >>)

(***************************************************************************)
(* The two Markdown heading paths on one line                              *)
(***************************************************************************)
HeadingBodies ==
  {<< "X" >>, << "a", " ", "b" >>, << "a", "#" >>, << "X", "y" >>}

\* a line of n '#' characters, one space or none, and a text
HeadingInputs ==
  [hashes : 0..MaxHashes, space : BOOLEAN, body : HeadingBodies]

HeadingLine(h) ==
  Repeat(<< "#" >>, h.hashes)
    \o (IF h.space THEN << " " >> ELSE << >>) \o h.body

HeadingInit ==
  /\ input \in HeadingInputs
  /\ last = Idle
  /\ blocks = << >>
  /\ dirty_blocks = {}
  /\ parser_registry = RegistryNew
  /\ registered = << >>
  /\ text = << >>
  /\ lines = << >>
  /\ current_pos = 0
  /\ found = << >>
  /\ clean = << >>

\* formats::markdown::parse_blocks on the line
ParseBlocksCall ==
  /\ last = Idle
  /\ last' = Call("parse_blocks", 0, HeadingLine(input),
                  FmtParseBlocks(HeadingLine(input)))
  /\ UNCHANGED << blocks, dirty_blocks, registryVars, input, clean >>
  /\ UNCHANGED detectVars

\* MarkdownParser::parse on the line
MarkdownParseCall ==
  /\ last = Idle
  /\ last' = Call("markdown_parse", 0, HeadingLine(input),
                  MarkdownParse(HeadingLine(input), 0))
  /\ UNCHANGED << blocks, dirty_blocks, registryVars, input, clean >>
  /\ UNCHANGED detectVars

HeadingNext == ParseBlocksCall \/ MarkdownParseCall

SpecHeading == HeadingInit /\ [][HeadingNext]_vars

\* the block a heading call returned
HeadingCallBlock ==
  IF last.op = "parse_blocks" THEN last.result[1] ELSE last.result.value[1]

\* C14: in both Markdown paths (parse_blocks through parse_markdown_header,
\* and MarkdownParser::parse) a line of n '#', one space and a text X yields
\* a Heading of level n with text X for 1 <= n <= 6, and yields a paragraph,
\* not a Heading, when n = 0, n > 6 or the space is missing.
C14_HeadingLevels ==
  last.op \in {"parse_blocks", "markdown_parse"} =>
    /\ last.op = "parse_blocks" => Len(last.result) = 1
    /\ last.op = "markdown_parse" => last.result.tag = "Ok"
    /\ IF input.hashes >= 1 /\ input.hashes <= 6 /\ input.space
       THEN HeadingCallBlock
              = Heading(input.hashes, << InlineText(input.body) >>)
       ELSE HeadingCallBlock.leaf = "Paragraph"

(***************************************************************************)
(* parse_list on nested bullet lines                                       *)
(***************************************************************************)
BulletBodies ==
  {<< "-", " ", "a" >>, << "1", ".", " ", "b" >>, << "-", " " >>}

\* a bullet line: its indentation and its marker with the item text
Bullets == [indent : 0..MaxIndent, body : BulletBodies]

BulletLine(b) == Repeat(<< " " >>, b.indent) \o b.body

ListInputs == UNION {[1..n -> Bullets] : n \in 1..MaxBullets}

ListText(bullets) ==
  Join([k \in 1..Len(bullets) |-> BulletLine(bullets[k])], << NL >>)

ListInit ==
  /\ input \in ListInputs
  /\ last = Idle
  /\ blocks = << >>
  /\ dirty_blocks = {}
  /\ parser_registry = RegistryNew
  /\ registered = << >>
  /\ text = << >>
  /\ lines = << >>
  /\ current_pos = 0
  /\ found = << >>
  /\ clean = << >>

ParseListCall ==
  /\ last = Idle
  /\ last' = Call("parse_list", 0, ListText(input), ParseList(ListText(input)))
  /\ UNCHANGED << blocks, dirty_blocks, registryVars, input, clean >>
  /\ UNCHANGED detectVars

SpecList == ListInit /\ [][ParseListCall]_vars

\* the nesting depth the indentation gives bullet i: one more than that of
\* the nearest preceding bullet indented strictly less, 0 when there is none
RECURSIVE BulletDepth(_, _)
BulletDepth(bullets, i) ==
  IF {j \in 1..(i - 1) : bullets[j].indent < bullets[i].indent} = {} THEN 0
  ELSE 1 + BulletDepth(bullets,
             Max({j \in 1..(i - 1) : bullets[j].indent < bullets[i].indent}))

IsList(b) == "container" \in DOMAIN b /\ b.container = "List"
IsParagraph(b) == "leaf" \in DOMAIN b /\ b.leaf = "Paragraph"

\* the items of a list and of the lists nested in its items, in document
\* order, each with its depth and its first block
RECURSIVE FlattenList(_, _)
RECURSIVE FlattenItems(_, _)
FlattenItem(item, depth) ==
  << [depth |-> depth, first |-> item[1]] >>
    \o FlattenItems(SelectSeq(Tail(item), IsList), depth + 1)

FlattenItems(lists, depth) ==
  IF lists = << >> THEN << >>
  ELSE FlattenList(Head(lists), depth) \o FlattenItems(Tail(lists), depth)

FlattenList(list, depth) ==
  IF list.items = << >> THEN << >>
  ELSE FlattenItem(Head(list.items), depth)
         \o FlattenList([list EXCEPT !.items = Tail(@)], depth)

\* every item is a Paragraph, or a Paragraph followed by one nested List
RECURSIVE ItemsShaped(_)
ItemsShaped(list) ==
  \A k \in 1..Len(list.items) :
    LET item == list.items[k]
    IN /\ Len(item) \in {1, 2}
       /\ IsParagraph(item[1])
       /\ Len(item) = 2 => IsList(item[2]) /\ ItemsShaped(item[2])

\* C15: for a list whose child bullet lines are indented strictly more than
\* their parent bullet line, parse_list returns a List in which the item of
\* each parent holds, after its first Paragraph, one nested List with its
\* children, recursively, and the items over all nesting levels are as many
\* as the bullet lines.
C15_NestedList ==
  last.op = "parse_list" =>
    /\ last.result # None
    /\ IsList(last.result[1])
    /\ ItemsShaped(last.result[1])
    /\ Len(FlattenList(last.result[1], 0)) = Len(input)
    /\ \A i \in 1..Len(input) :
         FlattenList(last.result[1], 0)[i].depth = BulletDepth(input, i)

(***************************************************************************)
(* MarkdownFormat: serialize and deserialize                               *)
(***************************************************************************)
Note(id, title, bs) == [id |-> id, title |-> title, blocks |-> bs]

\* str::trim_matches(c)
TrimMatches(s, c) ==
  IF {k \in 1..Len(s) : s[k] # c} = {} THEN << >>
  ELSE SubSeq(s, Min({k \in 1..Len(s) : s[k] # c}),
              Max({k \in 1..Len(s) : s[k] # c}))

\* the regex (?s)^---\s*(.*?)\s*--- : 0 when the content does not match,
\* else the position of the closing "---"
YamlClose(content) ==
  IF StartsWith(content, << "-", "-", "-" >>)
  THEN FindFrom(content, << "-", "-", "-" >>, 4)
  ELSE 0

RECURSIVE YamlTitleLine(_)
YamlTitleLine(ls) ==
  IF ls = << >> THEN None
  ELSE IF StartsWith(Head(ls), << "t", "i", "t", "l", "e", ":" >>)
  THEN Some(TrimMatches(Trim(Drop(Head(ls), 6)), "\""))
  ELSE YamlTitleLine(Tail(ls))

ExtractYamlTitle(content) ==
  IF YamlClose(content) = 0 THEN None
  ELSE YamlTitleLine(Lines(Trim(SubSeq(content, 4, YamlClose(content) - 1))))

StripYamlFrontmatter(content) ==
  IF YamlClose(content) = 0 THEN Trim(content)
  ELSE Trim(Drop(content, YamlClose(content) + 2))

\* rsplit_once on '/' or '\\', then rsplit_once('.')
NamePart(path) ==
  IF {k \in 1..Len(path) : path[k] \in {"/", "\\"}} = {} THEN path
  ELSE Drop(path, Max({k \in 1..Len(path) : path[k] \in {"/", "\\"}}))

StemOf(name_part) ==
  IF {k \in 1..Len(name_part) : name_part[k] = "."} = {} THEN name_part
  ELSE Take(name_part, Max({k \in 1..Len(name_part) : name_part[k] = "."}) - 1)

FilenameStem(path) == StemOf(NamePart(path))

RECURSIVE SerializeInlines(_)
SerializeInline(i) ==
  CASE i.inline = "Text" -> i.text
    [] i.inline = "Bold" ->
         << "*", "*" >> \o SerializeInlines(i.content) \o << "*", "*" >>
    [] i.inline = "Italic" -> << "*" >> \o SerializeInlines(i.content) \o << "*" >>
    [] i.inline = "Strikethrough" ->
         << "~", "~" >> \o SerializeInlines(i.content) \o << "~", "~" >>
    [] i.inline = "Link" ->
         << "[" >> \o SerializeInlines(i.text) \o << "]", "(" >> \o i.target
           \o << ")" >>
    [] i.inline = "Image" ->
         << "!", "[" >> \o (IF i.alt_text = None THEN << >> ELSE i.alt_text[1])
           \o << "]", "(" >> \o i.src \o << ")" >>
    [] i.inline = "Code" -> << BQ >> \o i.code \o << BQ >>
    [] i.inline = "Math" -> << "$" >> \o i.content \o << "$" >>

SerializeInlines(inlines) ==
  IF inlines = << >> THEN << >>
  ELSE SerializeInline(Head(inlines)) \o SerializeInlines(Tail(inlines))

SerializeLeaf(leaf) ==
  CASE leaf.leaf = "Heading" ->
         Repeat(<< "#" >>, leaf.level) \o << " " >>
           \o SerializeInlines(leaf.content) \o << NL >>
    [] leaf.leaf = "Paragraph" -> SerializeInlines(leaf.content) \o << NL >>
    [] leaf.leaf = "Image" ->
         << "!", "[" >>
           \o (IF leaf.alt_text = None THEN << >> ELSE leaf.alt_text[1])
           \o << "]", "(" >> \o leaf.src \o << ")", NL >>
    [] leaf.leaf = "CodeBlock" ->
         FENCE \o (IF leaf.language = None THEN << >> ELSE leaf.language[1])
           \o << NL >> \o leaf.content \o << NL >> \o FENCE \o << NL >>
    [] leaf.leaf = "MathBlock" ->
         DOLLARS \o << NL >> \o leaf.content \o << NL >> \o DOLLARS \o << NL >>

\* format!("{}", n) for a positive n
RECURSIVE Decimal(_)
Decimal(n) ==
  IF n < 10 THEN << << "0", "1", "2", "3", "4", "5", "6", "7", "8", "9" >>[n + 1] >>
  ELSE Decimal(n \div 10) \o Decimal(n % 10)

ListPrefix(style, i) ==
  IF style.list = "Ordered" THEN Decimal(i) \o << ".", " " >>
  ELSE << style.bullet, " " >>

\* every line of ls followed by a newline, the first after `first`, the
\* others after two spaces
RECURSIVE IndentLines(_, _)
IndentLines(ls, first) ==
  IF ls = << >> THEN << >>
  ELSE first \o Head(ls) \o << NL >> \o IndentLines(Tail(ls), << " ", " " >>)

RECURSIVE Serialize(_)
RECURSIVE SerializeBlocks(_)
RECURSIVE SerializeRest(_)
RECURSIVE SerializeItems(_, _, _)

\* the blocks of an item after its first
SerializeRest(rest) ==
  IF rest = << >> THEN << >>
  ELSE IndentLines(Lines(SerializeBlocks(<< Head(rest) >>)), << " ", " " >>)
         \o SerializeRest(Tail(rest))

SerializeItems(style, items, i) ==
  IF i > Len(items) THEN << >>
  ELSE (IF items[i] = << >> THEN << >>
        ELSE IndentLines(Lines(SerializeBlocks(<< items[i][1] >>)),
                         ListPrefix(style, i))
               \o SerializeRest(Tail(items[i])))
         \o SerializeItems(style, items, i + 1)

SerializeList(style, items) == SerializeItems(style, items, 1)

SerializeBlock(block) ==
  IF "container" \in DOMAIN block
  THEN SerializeList(block.style, block.items)
  ELSE SerializeLeaf(block)

RECURSIVE SerializeEach(_)
SerializeEach(bs) ==
  IF bs = << >> THEN << >>
  ELSE SerializeBlock(Head(bs)) \o SerializeEach(Tail(bs))

Serialize(note) == << "#", " " >> \o note.title \o << NL >> \o SerializeEach(note.blocks)

\* the free function serialize_blocks, used for the blocks of a list item
SerializeBlocks(bs) ==
  IF bs = << >> THEN << >>
  ELSE (IF "container" \in DOMAIN Head(bs) \/ Head(bs).leaf = "Image"
        THEN Serialize(Note(<< >>, << >>, << Head(bs) >>))
        ELSE IF Head(bs).leaf = "Paragraph"
        THEN SerializeInlines(Head(bs).content)
        ELSE IF Head(bs).leaf = "Heading"
        THEN Repeat(<< "#" >>, Head(bs).level) \o << " " >>
               \o SerializeInlines(Head(bs).content)
        ELSE << >>)
         \o << NL >> \o SerializeBlocks(Tail(bs))

\* deserialize's loop over the first lines of the body: blank lines are
\* skipped and, without a YAML title, each "# " line sets the title; the
\* first other line and all after it are the body
RECURSIVE TitleScan(_, _, _, _)
TitleScan(ls, i, title, yaml_title) ==
  IF i > Len(ls) THEN [title |-> title, body_lines |-> << >>]
  ELSE IF Trim(ls[i]) = << >> THEN TitleScan(ls, i + 1, title, yaml_title)
  ELSE IF yaml_title = None /\ StartsWith(Trim(ls[i]), << "#", " " >>)
  THEN TitleScan(ls, i + 1, Trim(Drop(Trim(ls[i]), 2)), yaml_title)
  ELSE [title |-> title, body_lines |-> SubSeq(ls, i, Len(ls))]

NoteOf(scan, id) ==
  Note(id, scan.title, FmtParseBlocks(Join(scan.body_lines, << NL >>)))

\* deserialize(data, id_hint), uuid being the identifier Uuid::new_v4 draws
Deserialize(data, id_hint, uuid) ==
  NoteOf(TitleScan(Lines(StripYamlFrontmatter(data)), 1,
                   IF ExtractYamlTitle(data) # None THEN ExtractYamlTitle(data)[1]
                   ELSE FilenameStem(IF id_hint = None THEN << >> ELSE id_hint[1]),
                   ExtractYamlTitle(data)),
         IF id_hint = None THEN uuid ELSE FilenameStem(id_hint[1]))

NoteIds == {<< "n" >>, << "n", ".", "x" >>}
NoteTitles == {<< "T" >>, << >>}
Uuids == {<< "u", "1" >>, << "u", "2" >>}

NoteBlockPool ==
  << Heading(1, << InlineText(<< "H" >>) >>),
    Heading(2, << InlineText(<< "H" >>) >>),
    Paragraph(<< InlineText(<< "a" >>) >>),
    Paragraph(<< InlineText(<< "a" >>), InlineBold(<< InlineText(<< "b" >>) >>) >>),
    Image(Some(<< "a" >>), << "i" >>),
    List(Unordered("-"), << << Paragraph(<< InlineText(<< "a" >>) >>) >>,
                             << Paragraph(<< InlineText(<< "b" >>) >>) >> >>),
    List(OrderedDecimalDot, << << Paragraph(<< InlineText(<< "a" >>) >>) >> >>),
    CodeBlock(Some(<< "r" >>), << "x" >>),
    MathBlock(<< "x" >>) >>

\* a note is chosen by its id, its title and the pool positions of its blocks
NoteInputs ==
  [id : NoteIds, title : NoteTitles,
   kinds : SeqsUpTo(1..Len(NoteBlockPool), MaxNoteBlocks)]

InputNote(i) ==
  Note(i.id, i.title, [k \in 1..Len(i.kinds) |-> NoteBlockPool[i.kinds[k]]])

NoteInit ==
  /\ input \in NoteInputs
  /\ last = Idle
  /\ blocks = << >>
  /\ dirty_blocks = {}
  /\ parser_registry = RegistryNew
  /\ registered = << >>
  /\ text = << >>
  /\ lines = << >>
  /\ current_pos = 0
  /\ found = << >>
  /\ clean = << >>

SerializeCall ==
  /\ last = Idle
  /\ last' = Call("serialize", 0, None, Serialize(InputNote(input)))
  /\ UNCHANGED << blocks, dirty_blocks, registryVars, input, clean >>
  /\ UNCHANGED detectVars

DeserializeCall ==
  /\ last.op = "serialize"
  /\ \E uuid \in Uuids :
       last' = Call("deserialize", 0, last.result,
                    Deserialize(last.result, Some(input.id), uuid))
  /\ UNCHANGED << blocks, dirty_blocks, registryVars, input, clean >>
  /\ UNCHANGED detectVars

NoteNext == SerializeCall \/ DeserializeCall

SpecNote == NoteInit /\ [][NoteNext]_vars

\* C16: deserialize(serialize(n), Some(n.id)) returns a note with the id,
\* the title and the number of top-level blocks of n, for every note n built
\* from headings, paragraphs, images, flat lists, code blocks and math blocks.
C16_RoundTrip ==
  last.op = "deserialize" =>
    /\ last.result.id = input.id
    /\ last.result.title = input.title
    /\ Len(last.result.blocks) = Len(input.kinds)

(***************************************************************************)
(* The editing session with its history: `clean` is the block sequence as  *)
(* it stood right after the latest clear_dirty or parse_document, and the  *)
(* host writes a block's raw_text through the reference block_mut returns. *)
(***************************************************************************)
\* the text written or passed to update_block_text, and the inserted block:
\* a block of a host dialect, for which the repository registers no parser
WriteTexts == {L_head}
CleanInsertBlocks == {CustomBlock}

\* LibnoteDocument::new: the manager with the repository's three parsers
CleanInit ==
  /\ registered = RepoCalls
  /\ ManagerNew(RepoRegistry)
  /\ text = << >>
  /\ lines = << >>
  /\ current_pos = 0
  /\ found = << >>
  /\ clean = << >>
  /\ input = None

\* block_mut that hands out the reference without marking the index
BlockMutWrite_NoMark(index, t) ==
  /\ blocks' = IF index < Len(blocks)
               THEN [blocks EXCEPT ![index + 1].raw_text = t]
               ELSE blocks
  /\ UNCHANGED dirty_blocks
  /\ last' = Call("block_mut", index, t,
                  Ok(IF index < Len(blocks) THEN Some(blocks'[index + 1])
                     ELSE None))
  /\ UNCHANGED registryVars
  /\ UNCHANGED << detectVars, input >>

\* if let Some(block) = manager.block_mut(index) { block.raw_text = t }
BlockMutWrite(index, t) ==
  /\ blocks' = IF index < Len(blocks)
               THEN [blocks EXCEPT ![index + 1].raw_text = t]
               ELSE blocks
  /\ dirty_blocks' = IF index < Len(blocks) THEN dirty_blocks \cup {index}
                     ELSE dirty_blocks
  /\ last' = Call("block_mut", index, t,
                  Ok(IF index < Len(blocks) THEN Some(blocks'[index + 1])
                     ELSE None))
  /\ UNCHANGED registryVars
  /\ UNCHANGED << detectVars, input >>

NextClean ==
  \/ \E t \in EditTexts : ParseDocument(t) /\ clean' = blocks'
  \/ ClearDirty /\ clean' = blocks
  \/ \E i \in 0..Len(blocks), t \in WriteTexts :
       BlockMutWrite(i, t) /\ UNCHANGED clean
  \/ \E i \in 0..Len(blocks), t \in WriteTexts :
       UpdateBlockText(i, t) /\ UNCHANGED clean
  \/ \E i \in 0..(Len(blocks) + 1), b \in CleanInsertBlocks :
       InsertBlock(i, b) /\ UNCHANGED clean
  \/ \E i \in 0..Len(blocks) : RemoveBlock(i) /\ UNCHANGED clean

SpecClean == CleanInit /\ [][NextClean]_vars

\* C18: in every reachable manager state each index j < block_count that is
\* not in the dirty set holds the block, identical in syntax, raw_text, ast,
\* metadata and line_range, that was at index j right after the most recent
\* clear_dirty or parse_document call.
C18_CleanBlocksUnchanged ==
  \A j \in 0..(Len(blocks) - 1) :
    j \notin dirty_blocks => j < Len(clean) /\ blocks[j + 1] = clean[j + 1]

\* one block untouched since the last clear_dirty next to one written
\* through block_mut since then
C18_Witness ==
  /\ last.op = "block_mut"
  /\ Len(blocks) = 2
  /\ Len(clean) = 2
  /\ dirty_blocks = {1}
  /\ blocks[1] = clean[1]
  /\ blocks[2] # clean[2]

(***************************************************************************)
(* Properties of the dirty set over an editing session                     *)
(***************************************************************************)
\* C17: in every reachable manager state every index in the dirty set is a
\* valid block position (index < block_count).
C17_DirtyIndicesValid == \A i \in dirty_blocks : i < Len(blocks)

DirtyGrowingOps == {"update_block_text", "insert_block", "block_mut"}

\* C19 as stated: no call of update_block_text, insert_block, remove_block or
\* block_mut removes an index from the dirty set.
C19_DirtyOnlyGrows ==
  [][last'.op \in DirtyGrowingOps \cup {"remove_block"}
       => dirty_blocks \subseteq dirty_blocks']_vars

\* C19 amended: update_block_text, insert_block and block_mut remove no index
\* from the dirty set; remove_block(i) removes none but i itself, and drops i
\* only when i was the last position of the collection.
C19_DirtyGrowsButRemoved ==
  [][/\ last'.op \in DirtyGrowingOps => dirty_blocks \subseteq dirty_blocks'
     /\ last'.op = "remove_block" =>
          /\ (dirty_blocks \ {last'.index}) \subseteq dirty_blocks'
          /\ (last'.index \in dirty_blocks /\ last'.index \notin dirty_blocks')
               => (last'.result.value # None /\ last'.index = Len(blocks'))]_vars

C19_Witness ==
  /\ last.op = "remove_block"
  /\ last.result.value # None
  /\ last.index = 1
  /\ Len(blocks) = 1
  /\ dirty_blocks = {0}

(***************************************************************************)
(* A session of parse_document and update_block_text alone                 *)
(***************************************************************************)
ReparseLinePool == {L_blank, L_a, L_math, L_fence, L_begin, L_end}

ReparseTexts ==
  {Join(ls, << NL >>) : ls \in SeqsUpTo(ReparseLinePool, MaxReparseLines)}

\* the manager of a document whose source is `text`
ReparseInit ==
  /\ \E calls \in RegistryCalls :
       /\ registered = calls
       /\ ManagerNew(RegisterAll(RegistryNew, calls))
  /\ text \in ReparseTexts
  /\ lines = << >>
  /\ current_pos = 0
  /\ found = << >>
  /\ clean = << >>
  /\ input = None

NextReparse ==
  \/ ParseDocument(text) /\ UNCHANGED clean
  \/ \E i \in 0..Len(blocks), t \in UpdateTexts :
       UpdateBlockText(i, t) /\ UNCHANGED clean

SpecReparse == ReparseInit /\ [][NextReparse]_vars

\* C20: after any sequence of parse_document and update_block_text calls,
\* successful or failed, every block held by the manager has the ast and the
\* metadata that the parser registered for its syntax returns on its raw_text
\* at line_range.0.
C20_AstConsistent ==
  \A k \in 1..Len(blocks) :
    /\ RegistryGet(parser_registry, blocks[k].syntax) # None
    /\ ParserParse(RegistryGet(parser_registry, blocks[k].syntax)[1],
                   blocks[k].raw_text, blocks[k].line_range[1])
         = Ok(<< blocks[k].ast, blocks[k].metadata >>)

\* an Org block, second of two, reparsed by update_block_text
C20_Witness ==
  /\ last.op = "update_block_text"
  /\ last.result.tag = "Ok"
  /\ last.index = 1
  /\ Len(blocks) = 2
  /\ blocks[2].syntax = "Org"
  /\ blocks[2].raw_text = L_head

(***************************************************************************)
(* Positions under insert_block and remove_block                           *)
(***************************************************************************)
\* C21: insert_block(i, b) with i <= block_count adds one block, puts b at i,
\* moves every block formerly at j >= i to j + 1 and leaves those at j < i;
\* remove_block(i) with i < block_count returns the block at i, removes one
\* block and moves every block formerly at j > i to j - 1; remove_block(i)
\* with i >= block_count returns None and changes neither the blocks nor the
\* dirty set.
C21_InsertRemovePositions ==
  [][/\ (last'.op = "insert_block" /\ last'.index <= Len(blocks)) =>
          /\ Len(blocks') = Len(blocks) + 1
          /\ blocks'[last'.index + 1] = last'.arg
          /\ \A j \in 0..(Len(blocks) - 1) :
               blocks'[(IF j >= last'.index THEN j + 1 ELSE j) + 1]
                 = blocks[j + 1]
     /\ (last'.op = "remove_block" /\ last'.index < Len(blocks)) =>
          /\ last'.result = Ok(Some(blocks[last'.index + 1]))
          /\ Len(blocks') = Len(blocks) - 1
          /\ \A j \in 0..(Len(blocks) - 1) :
               j # last'.index =>
                 blocks'[(IF j > last'.index THEN j - 1 ELSE j) + 1]
                   = blocks[j + 1]
     /\ (last'.op = "remove_block" /\ last'.index >= Len(blocks)) =>
          /\ last'.result = Ok(None)
          /\ blocks' = blocks
          /\ dirty_blocks' = dirty_blocks]_vars

\* a block inserted in front of a different one, which moved to position 1
C21_Witness ==
  /\ last.op = "insert_block"
  /\ last.result.tag = "Ok"
  /\ last.index = 0
  /\ Len(blocks) = 2
  /\ blocks[1] = last.arg
  /\ blocks[2] # last.arg

(***************************************************************************)
(* render_dirty_blocks                                                     *)
(***************************************************************************)
\* the orders in which iterating the HashSet of dirty indices may yield them
Orders(S) ==
  {o \in [1..Cardinality(S) -> S] :
     \A i, j \in 1..Cardinality(S) : i # j => o[i] # o[j]}

RECURSIVE RenderDirtyLoop(_, _, _, _)
\* the for loop of render_dirty_blocks over the indices in `order`:
\* self.blocks[index] panics when index is not a position
RenderDirtyLoop(reg, bs, order, output) ==
  IF order = << >> THEN Ok(output)
  ELSE IF Head(order) >= Len(bs) THEN Panic
  ELSE IF RegistryGet(reg, bs[Head(order) + 1].syntax) = None
  THEN Err(NoParserFor(bs[Head(order) + 1].syntax))
  ELSE RenderDirtyLoop(reg, bs, Tail(order),
         output
           \o ParserRender(RegistryGet(reg, bs[Head(order) + 1].syntax)[1],
                           bs[Head(order) + 1].ast,
                           bs[Head(order) + 1].metadata)
           \o << NL >>)

\* render_dirty_blocks: the loop, then Ok(output)
RenderDirtyBlocksResult(reg, bs, order) == RenderDirtyLoop(reg, bs, order, << >>)

RenderDirtyBlocks(order) ==
  /\ last' = Call("render_dirty_blocks", 0, order,
                  RenderDirtyBlocksResult(parser_registry, blocks, order))
  /\ UNCHANGED << blocks, dirty_blocks, registryVars >>
  /\ UNCHANGED << detectVars, input >>

NextRender ==
  \/ Next
  \/ \E order \in Orders(dirty_blocks) :
       RenderDirtyBlocks(order) /\ UNCHANGED clean

SpecRender == Init /\ [][NextRender]_vars

\* the blocks at the indices of `order` that are positions, in that order
BlocksAt(order) ==
  [k \in 1..Len(SelectSeq(order, LAMBDA i : i < Len(blocks))) |->
     blocks[SelectSeq(order, LAMBDA i : i < Len(blocks))[k] + 1]]

AllParsersRegistered ==
  \A k \in 1..Len(blocks) :
    RegistryGet(parser_registry, blocks[k].syntax) # None

\* C22: in every manager state where all blocks' parsers are registered,
\* render_dirty_blocks returns Ok with what render_document would return for
\* exactly the dirty blocks, each once, in the order visited: their
\* renderings one newline apart with trailing whitespace trimmed.
C22_RenderDirtyBlocks ==
  (last.op = "render_dirty_blocks" /\ AllParsersRegistered) =>
    /\ last.result.tag = "Ok"
    /\ last.result = RenderDocumentResult(parser_registry, BlocksAt(last.arg))


(***************************************************************************)
(* The three parsers of the repository called on their own: parse, then    *)
(* render of the parsed block, then parse of the rendered text             *)
(***************************************************************************)
MaxParseLines == 2

L_star == << "*", " ", "a" >>
L_todo == << "*", " " >> \o TODO_ \o << " ", "a" >>
L_rule == << "-", "-", "-" >>

ParseLinePool ==
  {L_blank, L_a, L_head, L_star, L_todo, L_rule, L_begin, L_end, L_math, L_fence}

ParseTexts == {Join(ls, << NL >>) : ls \in SeqsUpTo(ParseLinePool, MaxParseLines)}

ParseInputs == [parser : {RepoCalls[k] : k \in 1..Len(RepoCalls)}, text : ParseTexts]

ParserInit ==
  /\ input \in ParseInputs
  /\ last = Idle
  /\ blocks = << >>
  /\ dirty_blocks = {}
  /\ parser_registry = RepoRegistry
  /\ registered = RepoCalls
  /\ text = << >>
  /\ lines = << >>
  /\ current_pos = 0
  /\ found = << >>
  /\ clean = << >>

\* parser.parse(text, 0)
ParseCall ==
  /\ last = Idle
  /\ last' = Call("parse", 0, Some(input.text),
                  ParserParse(input.parser, input.text, 0))
  /\ UNCHANGED << blocks, dirty_blocks, registryVars, input, clean >>
  /\ UNCHANGED detectVars

\* parser.render(&block, &metadata) on the pair parse returned
RenderCall ==
  /\ last.op = "parse"
  /\ last.result.tag = "Ok"
  /\ last' = Call("render", 0, Some(last.result.value),
                  ParserRender(input.parser, last.result.value[1],
                               last.result.value[2]))
  /\ UNCHANGED << blocks, dirty_blocks, registryVars, input, clean >>
  /\ UNCHANGED detectVars

\* parser.parse(rendered, 0) on the text render returned
ReparseCall ==
  /\ last.op = "render"
  /\ last' = Call("parse_rendered", 0, Some(last.result),
                  ParserParse(input.parser, last.result, 0))
  /\ UNCHANGED << blocks, dirty_blocks, registryVars, input, clean >>
  /\ UNCHANGED detectVars

ParserNext == ParseCall \/ RenderCall \/ ReparseCall

SpecParser == ParserInit /\ [][ParserNext]_vars

\* C23: parse of MarkdownParser, OrgParser and LaTeXParser returns Ok or a
\* ParseError for every input text, empty and single-line texts included,
\* and never aborts.
C23_ParseNeverAborts ==
  last.op \in {"parse", "parse_rendered"} => last.result.tag \in {"Ok", "Err"}

\* C24: for each of the three parsers and every text t that parses,
\* parse(render(parse(t))) is the same Block and the same BlockMetadata as
\* parse(t).
C24_ParseRenderStable ==
  last.op = "parse_rendered" =>
    last.result = ParserParse(input.parser, input.text, 0)


(***************************************************************************)
(* Markdown runs of detect                                                 *)
(***************************************************************************)
\* a dialect marker line: trimmed it starts with #+BEGIN_ or a fence, or it
\* contains $$
IsMarkerLine(l) ==
  \/ StartsWith(Trim(l), BEGIN_)
  \/ StartsWith(Trim(l), FENCE)
  \/ Contains(l, DOLLARS)

\* C25: every Markdown block found by detect consists only of non-blank
\* lines that are not dialect marker lines, its content is those lines, and
\* it is maximal: the line right after it, if any, is blank or a marker line.
C25_MarkdownRuns ==
  \A k \in 1..Len(found) :
    found[k].syntax = "Markdown" =>
      /\ \A i \in found[k].start_line..found[k].end_line :
           /\ ~IsBlankLine(LineAt(lines, i))
           /\ ~IsMarkerLine(LineAt(lines, i))
      /\ found[k].content = JoinLines(lines, found[k].start_line, found[k].end_line)
      /\ found[k].end_line + 1 < Len(lines) =>
           \/ IsBlankLine(LineAt(lines, found[k].end_line + 1))
           \/ IsMarkerLine(LineAt(lines, found[k].end_line + 1))

C25_Witness ==
  /\ DetectDone
  /\ Len(lines) = 3
  /\ Len(found) >= 1
  /\ found[1].syntax = "Markdown"
  /\ found[1].start_line = 0
  /\ found[1].end_line = 1
  /\ IsMarkerLine(LineAt(lines, 2))
  /\ ~IsBlankLine(LineAt(lines, 2))


(***************************************************************************)
(* Org blocks of detect                                                    *)
(***************************************************************************)
\* the TYPE of an Org opener line, as Option
OrgOpenerType(l) ==
  IF StartsWith(TrimStart(l), BEGIN_)
  THEN FirstToken(Drop(TrimStart(l), Len(BEGIN_)))
  ELSE None

\* l carries #+END_<TYPE> for the given type, compared without case
ClosesOrg(l, type) ==
  /\ StartsWith(TrimStart(l), END_)
  /\ StartsWith(ToUppercase(Drop(TrimStart(l), Len(END_))), ToUppercase(type))

\* the lines after the line at current_pos that close an opener of the type
OrgClosers(type) ==
  {k \in LinesAfter(lines, current_pos) : ClosesOrg(LineAt(lines, k), type)}

\* C26: when the scan stands on a line whose trimmed form starts with
\* #+BEGIN_<TYPE> and a later line carries #+END_<TYPE> with the same TYPE
\* compared case-insensitively, the step emits one block of kind Org that
\* spans the opener and the first such closing line inclusive.
C26_OrgBlockCloses ==
  [][(/\ current_pos < Len(lines)
      /\ OrgOpenerType(LineAt(lines, current_pos)) # None
      /\ OrgClosers(OrgOpenerType(LineAt(lines, current_pos))[1]) # {})
     => /\ Len(found') = Len(found) + 1
        /\ found'[Len(found')].syntax = "Org"
        /\ found'[Len(found')].start_line = current_pos
        /\ found'[Len(found')].end_line =
             Min(OrgClosers(OrgOpenerType(LineAt(lines, current_pos))[1]))
        /\ current_pos' = found'[Len(found')].end_line + 1]_vars


(***************************************************************************)
(* build_section_tree keeps every node                                     *)
(***************************************************************************)
\* the position of the nearest heading before position i, or 0 (the root)
NearestHeading(nodes, i) ==
  IF {j \in HeadingPositions(nodes) : j < i} = {} THEN 0
  ELSE Max({j \in HeadingPositions(nodes) : j < i})

\* the << section id, block id >> pairs of a section tree
RECURSIVE BlockOwners(_)
BlockOwners(section) ==
  {<< section.id, section.blocks[k].id >> : k \in 1..Len(section.blocks)}
    \cup UNION {BlockOwners(section.children[k]) :
                  k \in 1..Len(section.children)}

\* pre-order walk: the section's heading node, its blocks, then its children
RECURSIVE WalkSection(_)
RECURSIVE WalkChildren(_)
WalkChildren(children) ==
  IF children = << >> THEN << >>
  ELSE WalkSection(Head(children)) \o WalkChildren(Tail(children))

WalkSection(section) ==
  << BlockNode(section.id, Heading(section.level, section.title[1])) >>
    \o section.blocks \o WalkChildren(section.children)

WalkRoot(root) == root.blocks \o WalkChildren(root.children)

\* C27: build_section_tree loses, duplicates and reorders no node: every
\* non-heading node is a content block of the section of the nearest
\* preceding heading (of the root when none precedes it), every section has
\* the id and title of its heading node, and the pre-order walk of the
\* result (heading, blocks, children) is the input sequence.
C27_NoNodeLost ==
  last.op = "build_section_tree" =>
    /\ last.result.title = None
    /\ BlockOwners(last.result) =
         {<< NearestHeading(last.arg, i), i >> :
            i \in (1..Len(last.arg)) \ HeadingPositions(last.arg)}
    /\ WalkRoot(last.result) = last.arg

\* content before the first heading, under a heading, and under a
\* subheading
C27_Witness ==
  /\ last.op = "build_section_tree"
  /\ last.arg = TreeNodes(<< 0, 1, 0, 2 >>)
  /\ Len(last.result.blocks) = 1
  /\ Len(last.result.children) = 1
  /\ Len(last.result.children[1].blocks) = 1
  /\ Len(last.result.children[1].children) = 1


(***************************************************************************)
(* formats::markdown::parse_blocks and parse_table called on small texts   *)
(* of table rows, list lines and lines that start with a digit             *)
(***************************************************************************)
MaxBlockLines == 2

L_row1 == << "a", "|", "b" >>
L_row2 == << "c", "|", "d" >>
L_align == << "-", "|", "-" >>
L_digit == << "2", " ", "a" >>
L_paren == << "2", ")", " ", "a" >>
L_bullet == << "-", " ", "a" >>
L_num == << "1", ".", " ", "a" >>

BlockLinePool ==
  {L_blank, L_a, L_row1, L_row2, L_align, L_digit, L_paren, L_bullet, L_num}

BlockTexts == {Join(ls, << NL >>) : ls \in SeqsUpTo(BlockLinePool, MaxBlockLines)}

BlocksInit ==
  /\ input \in BlockTexts
  /\ last = Idle
  /\ blocks = << >>
  /\ dirty_blocks = {}
  /\ parser_registry = RegistryNew
  /\ registered = << >>
  /\ text = << >>
  /\ lines = << >>
  /\ current_pos = 0
  /\ found = << >>
  /\ clean = << >>

\* parse_blocks(input)
FmtParseBlocksCall ==
  /\ last = Idle
  /\ last' = Call("parse_blocks", 0, input, FmtParseBlocks(input))
  /\ UNCHANGED << blocks, dirty_blocks, registryVars, input, clean >>
  /\ UNCHANGED detectVars

\* parse_table(input)
ParseTableCall ==
  /\ last = Idle
  /\ last' = Call("parse_table", 0, input, ParseTable(input))
  /\ UNCHANGED << blocks, dirty_blocks, registryVars, input, clean >>
  /\ UNCHANGED detectVars

BlocksNext == FmtParseBlocksCall \/ ParseTableCall

SpecBlocks == BlocksInit /\ [][BlocksNext]_vars

HasPipe(l) == Contains(l, << "|" >>)

IsTable(b) == "container" \in DOMAIN b /\ b.container = "Table"

\* C28: parse_blocks turns a text of two or more consecutive lines that all
\* contain '|' into one Table whose headers are the cells of the first
\* line, with the alignments and data rows parse_table gives for the run;
\* a single '|' line is not a table and becomes a paragraph.
C28_TableRuns ==
  last.op = "parse_blocks" =>
    /\ (/\ Len(Lines(last.arg)) >= 2
        /\ \A k \in 1..Len(Lines(last.arg)) : HasPipe(Lines(last.arg)[k]))
       => /\ Len(last.result) = 1
          /\ IsTable(last.result[1])
          /\ last.result[1] = ParseTable(last.arg)[1]
    /\ (Len(Lines(last.arg)) = 1 /\ HasPipe(Lines(last.arg)[1]))
       => /\ Len(last.result) = 1
          /\ IsParagraph(last.result[1])

\* C30: parse_blocks drops no content: a text with a non-blank line yields
\* at least one block, and a single line that only starts with a digit
\* ('2 a', '2) a') becomes a Paragraph of its inline text.
C30_NoContentDropped ==
  last.op = "parse_blocks" =>
    /\ (\E k \in 1..Len(Lines(last.arg)) : Trim(Lines(last.arg)[k]) # << >>)
       => last.result # << >>
    /\ last.arg \in {L_digit, L_paren}
       => last.result = << Paragraph(ParseInlines(last.arg)) >>


(***************************************************************************)
(* formats::markdown::parse_inlines called on short texts of delimiters    *)
(***************************************************************************)
MaxInlineLen == 3

InlineAlphabet == {"a", "*", "~", BQ, "$", "[", "]", "!", "(", ")"}

InlineTexts == SeqsUpTo(InlineAlphabet, MaxInlineLen)

InlineInit ==
  /\ input \in InlineTexts
  /\ last = Idle
  /\ blocks = << >>
  /\ dirty_blocks = {}
  /\ parser_registry = RegistryNew
  /\ registered = << >>
  /\ text = << >>
  /\ lines = << >>
  /\ current_pos = 0
  /\ found = << >>
  /\ clean = << >>

\* parse_inlines(input)
ParseInlinesCall ==
  /\ last = Idle
  /\ last' = Call("parse_inlines", 0, input, ParseInlines(input))
  /\ UNCHANGED << blocks, dirty_blocks, registryVars, input, clean >>
  /\ UNCHANGED detectVars

SpecInline == InlineInit /\ [][ParseInlinesCall]_vars

\* an opening delimiter followed only by characters that are no delimiter,
\* so that nothing closes it
UnmatchedOpener(t) ==
  /\ Len(t) >= 2
  /\ t[1] \in {"*", BQ, "$", "["}
  /\ \A k \in 2..Len(t) : t[k] \in {"a", "(", ")"}

\* C29: parse_inlines of an opening delimiter that nothing closes yields no
\* styled inline: every inline of the result is Text and the texts together
\* are the input, the delimiter included as a literal character.
C29_UnmatchedDelimiters ==
  (last.op = "parse_inlines" /\ UnmatchedOpener(last.arg)) =>
    /\ \A k \in 1..Len(last.result) : last.result[k].inline = "Text"
    /\ Join([k \in 1..Len(last.result) |-> last.result[k].text], << >>) = last.arg

====
